---- MODULE Spec2Model ----
(***************************************************************************)
(* Markup pipeline of the flashcards program: tokenize -> normalize ->     *)
(* layout (src/markup.py), with the character classification it imports    *)
(* (src/flashcards_lib/util.py) and the colour escapes                     *)
(* (src/flashcards_lib/ansi_esc.py).                                       *)
(*                                                                         *)
(* A character is a one-element atom (a string naming it); a Python str is *)
(* a sequence of characters.  Positions are 0-based as in the source, so   *)
(* position p of a str s is s[p + 1] here.  The scope of a token is always *)
(* None in the calls under study (tokenize(s) with the default scope) and  *)
(* is left out of tokens and quirks.                                       *)
(***************************************************************************)
EXTENDS Integers, Sequences, FiniteSets, TLC

VARIABLES
    \* tokenize (generator frame)
    s, breaks, i, j, yielded, tpc,
    \* normalize (generator frame)
    tokens_in, t0, normalized, npc,
    \* layout (frame of the running call, its outcome, the thread's stores)
    tokens, max_width, depth, output, operators, quirks, lpc, result, error,
    fgcolor_tls, macro_tls, fg_log, calls,
    \* Macro.create and Macro.push_arg called directly
    macro_def, macro_obj, pushed, expansion, mpc,
    \* TextGroup.concat called directly
    operand, with_empty, onto_empty,
    \* two threads, each in one layout call, and the two threading.local stores
    th_src, th_tokens, th_frame, th_pc, th_out, fgcolor_local, macro_local,
    \* line_break_opportunities called directly
    maybe_break_after, bpc,
    \* load_macros of flashcards.py: the store, the module's binding, the calls made
    macros_db, load_macros, called, created, load_calls, load_caller, load_error,
    \* cmd_start of flashcards.py: one practice session and its rows of session_cards
    counter, session_cards, round_rows, ready, current, done, history, rounds, revises,
    \* Formatter.lines of console_ui.py: the formatter's fields and the loop's locals
    formatter_text, formatter_cols, formatter_lines, line_start, line_break, fpc,
    \* Input of console_ui.py and the editor's preview
    input_text, cursor, getwch, preview_front, preview_back, edit_front,
    \* session_decks and session_cards of database.py
    card_deck, db_session_decks, db_session_cards, db_call, studies

tokVars  == <<breaks, i, j, yielded, tpc>>
normVars == <<tokens_in, t0, normalized, npc>>
layVars  == <<tokens, max_width, depth, output, operators, quirks, lpc, result, error,
              fgcolor_tls, macro_tls, fg_log, calls>>
macVars  == <<macro_def, macro_obj, pushed, expansion, mpc>>
concVars == <<operand, with_empty, onto_empty>>
thrVars  == <<th_src, th_tokens, th_frame, th_pc, th_out, fgcolor_local, macro_local>>
brkVars  == <<maybe_break_after, bpc>>
loadVars == <<macros_db, load_macros, called, created, load_calls, load_caller, load_error>>
pracVars == <<counter, session_cards, round_rows, ready, current, done, history, rounds, revises>>
fmtVars  == <<formatter_text, formatter_cols, formatter_lines, line_start, line_break, fpc>>
inputVars== <<input_text, cursor, getwch, preview_front, preview_back, edit_front>>
deckVars == <<card_deck, db_session_decks, db_session_cards, db_call, studies>>
libVars  == <<macro_def, macro_obj, pushed, expansion, mpc,
              operand, with_empty, onto_empty,
              th_src, th_tokens, th_frame, th_pc, th_out, fgcolor_local, macro_local,
              maybe_break_after, bpc,
              macros_db, load_macros, called, created, load_calls, load_caller, load_error,
              counter, session_cards, round_rows, ready, current, done, history, rounds, revises,
              formatter_text, formatter_cols, formatter_lines, line_start, line_break, fpc,
              input_text, cursor, getwch, preview_front, preview_back, edit_front,
              card_deck, db_session_decks, db_session_cards, db_call, studies>>
vars     == <<s, breaks, i, j, yielded, tpc, tokens_in, t0, normalized, npc,
              tokens, max_width, depth, output, operators, quirks, lpc, result, error,
              fgcolor_tls, macro_tls, fg_log, calls,
              macro_def, macro_obj, pushed, expansion, mpc,
              operand, with_empty, onto_empty,
              th_src, th_tokens, th_frame, th_pc, th_out, fgcolor_local, macro_local,
              maybe_break_after, bpc,
              macros_db, load_macros, called, created, load_calls, load_caller, load_error,
              counter, session_cards, round_rows, ready, current, done, history, rounds, revises,
              formatter_text, formatter_cols, formatter_lines, line_start, line_break, fpc,
              input_text, cursor, getwch, preview_front, preview_back, edit_front,
              card_deck, db_session_decks, db_session_cards, db_call, studies>>

(***************************************************************************)
(* Bounds                                                                  *)
(***************************************************************************)
MaxLen == 4          \* characters of a source string given to tokenize
MaxRaw == 3          \* pieces of a source given to normalize
MaxPieces == 3       \* pieces of a source given to one layout call
MaxSessionPieces == 3  \* pieces of a source in a session of several calls
MaxCalls == 2        \* layout calls made by one thread in a session
MaxBodyPieces == 2   \* pieces of a macro definition given to Macro.create
MaxPushes == 3       \* push_arg calls made on one macro
MaxDim == 2          \* width and height of a TextGroup given to concat
MaxItems == 2        \* items of a TextGroup given to concat
MaxThreadPieces == 2 \* pieces of the source laid out by the first of two threads
MaxFairPieces == 1   \* pieces of a source in the runs checked for termination
MaxBreakLen == 3     \* characters of a string given to line_break_opportunities
MaxStored == 3       \* rows of the macros table
MaxLoadCalls == 3    \* calls of load_macros in one process
MaxCards == 3        \* cards of the decks of the practised session
MaxRounds == 3       \* rounds started in one practice session
MaxRevises == 2      \* on_revise calls in one practice session
MaxText == 4         \* characters of the text of a Formatter
MaxCols == 3         \* columns of a Formatter
MaxInput == 3        \* characters of the text of an Input
MaxPreview == 2      \* characters of a side of the card under edit
MaxStudies == 3      \* calls of update_session_card in a run
MaxDeckList == 2     \* deck ids in one call of update_session_decks

(***************************************************************************)
(* Generic helpers                                                         *)
(***************************************************************************)
Max(a, b) == IF a >= b THEN a ELSE b
Min(a, b) == IF a <= b THEN a ELSE b

SeqsUpTo(S, n) == UNION { [1..k -> S] : k \in 0..n }

RECURSIVE Flatten(_)
Flatten(ss) == IF ss = <<>> THEN <<>> ELSE Head(ss) \o Flatten(Tail(ss))

\* Python slice s[a:b] for 0 <= a, clipped at len(s)
Slice(str, a, b) == IF Min(b, Len(str)) <= a THEN <<>> ELSE SubSeq(str, a + 1, Min(b, Len(str)))

(***************************************************************************)
(* Unicode classifier: unicodedata.category / east_asian_width of the      *)
(* characters used in the model.                                           *)
(***************************************************************************)
NBSP   == "NBSP"      \* U+00A0  Zs
ZWSP   == "ZWSP"      \* U+200B  Cf
NBHY   == "NBHY"      \* U+2011  Pd  non-breaking hyphen
CJK    == "CJK"       \* U+56DB  Lo, wide
KANA   == "KANA"      \* U+3042  Lo, wide
KDOT   == "KDOT"      \* U+30FB  Po, wide  katakana middle dot
LF     == "LF"        \* U+000A  Cc
CR     == "CR"        \* U+000D  Cc

category(c) ==
    CASE c \in {" ", NBSP}              -> "Zs"
      [] c = ZWSP                       -> "Cf"
      [] c \in {"-", NBHY}              -> "Pd"
      [] c \in {"{", "["}               -> "Ps"
      [] c \in {"}", "]"}               -> "Pe"
      [] c = "^"                        -> "Sk"
      [] c = "_"                        -> "Pc"
      [] c \in {"\\", "#", ".", ",", KDOT} -> "Po"
      [] c \in {"1", "2", "3"}          -> "Nd"
      [] c \in {CJK, KANA}              -> "Lo"
      [] c \in {"R", "X"}               -> "Lu"
      [] c \in {LF, CR}                -> "Cc"
      [] OTHER                          -> "Ll"

east_asian_width(c) == IF c \in {CJK, KANA, KDOT} THEN "W" ELSE "N"

char_width(c) ==
    IF c = ZWSP THEN 0
    ELSE IF east_asian_width(c) \in {"F", "W"} THEN 2 ELSE 1

RECURSIVE unicode_width(_)
unicode_width(str) ==
    IF str = <<>> THEN 0 ELSE char_width(Head(str)) + unicode_width(Tail(str))

\* variant of the test that takes every space separator for a breaking space
is_breaking_space_any(c)  == category(c) = "Zs" \/ c = ZWSP
is_breaking_space(c)      == (category(c) = "Zs" /\ c # NBSP) \/ c = ZWSP
is_breaking_hyphen(c)     == category(c) = "Pd" /\ c # NBHY
is_inner_punctuation(c)   == category(c) \in {"Pc", "Po"}
is_starting_punctuation(c) == category(c) \in {"Ps", "Pi"}
is_ending_punctuation(c)  == category(c) \in {"Pd", "Pe", "Pf"}
is_cjk_ideogram(c)        == c = CJK
\* c >= '\u3040' and c <= '\u30ff'
is_kana(c)                == c \in {KANA, KDOT}

\* A StringMask is the set of its set bits (0-based positions); the masks below
\* are what StringMask.collect builds from a predicate over the characters
Positions(str) == 0..(Len(str) - 1)
\* mask << 1 : character shift to the left (bit p set iff bit p+1 was set)
shl1(mask) == { p - 1 : p \in { q \in mask : q >= 1 } }

line_break_opportunities(str) ==
    LET breaking_spaces    == { p \in Positions(str) : is_breaking_space(str[p + 1]) }
        breaking_hyphens   == { p \in Positions(str) : is_breaking_hyphen(str[p + 1]) }
        cjk_ideograms      == { p \in Positions(str) : is_cjk_ideogram(str[p + 1]) }
        kana               == { p \in Positions(str) : is_kana(str[p + 1]) }
        punctuation_inner  == { p \in Positions(str) : is_inner_punctuation(str[p + 1]) }
        punctuation_before == { p \in Positions(str) : is_starting_punctuation(str[p + 1]) }
        punctuation_after  == { p \in Positions(str) : is_ending_punctuation(str[p + 1]) }
        modifier           == { p \in Positions(str) : category(str[p + 1]) = "Sk" }
        maybe              == breaking_spaces \cup breaking_hyphens
                                \cup cjk_ideograms \cup shl1(cjk_ideograms)
                                \cup kana \cup shl1(kana)
    IN  ((((maybe \ punctuation_inner) \ shl1(punctuation_inner))
            \ punctuation_before) \ shl1(punctuation_after)) \ shl1(modifier)

is_delim(c) ==
    \/ c \in {"\\", "{", "}", "^", "_"}
    \/ is_breaking_space(c)
    \/ is_inner_punctuation(c)
    \/ is_starting_punctuation(c)
    \/ is_ending_punctuation(c)

token_boundaries(str) ==
    LET delim       == { p \in Positions(str) : is_delim(str[p + 1]) }
        number_sign == { p \in Positions(str) : str[p + 1] = "#" }
    IN  (line_break_opportunities(str) \cup delim \cup shl1(delim)) \ number_sign

(***************************************************************************)
(* Tokens                                                                  *)
(***************************************************************************)
LITERAL  == "literal"
ESCAPE   == "escape"
SPACE    == "whitespace"
INFIX    == "infix"
FUNCTION == "function"
MACRO    == "macro"
LBRACKET == "lbracket"
RBRACKET == "rbracket"

None    == <<"None">>             \* Python None where a tuple or a str is expected
NoToken == [type |-> "None", range |-> None, value |-> None]   \* t0 = None

Token(type_, range_, value) == [type |-> type_, range |-> range_, value |-> value]
with_type(t, type_) == [t EXCEPT !.type = type_]

(***************************************************************************)
(* tokenize: one loop iteration per step, then the trailing yield          *)
(***************************************************************************)
\* the frame of the generator on entry: breaks = token_boundaries(s), i = j = 0
tokenize_enter(str) ==
    [breaks |-> token_boundaries(str), i |-> 0, j |-> 0, yielded |-> <<>>]

\* body of "while j < len(s)" on the generator frame f
tokenize_iter(str, f) ==
    IF f.j \in f.breaks
    THEN [f EXCEPT !.i = f.j + 1, !.j = f.j + 1,
                   !.yielded = Append(f.yielded,
                                 Token(LITERAL, <<f.i, f.j>>, Slice(str, f.i, f.j + 1)))]
    ELSE [f EXCEPT !.j = f.j + 1]

\* "if i < len(s): yield ..." after the loop
tokenize_tail(str, f) ==
    IF f.i < Len(str)
    THEN [f EXCEPT !.yielded = Append(f.yielded,
                             Token(LITERAL, <<f.i, f.j>>, Slice(str, f.i, Len(str))))]
    ELSE f

RECURSIVE tokenize_loop(_, _)
tokenize_loop(str, f) ==
    IF f.j < Len(str) THEN tokenize_loop(str, tokenize_iter(str, f))
    ELSE tokenize_tail(str, f)

\* [*tokenize(s)]
tokenize(str) == tokenize_loop(str, tokenize_enter(str)).yielded

(***************************************************************************)
(* Registries (process-wide lookup tables, filled at import / start-up)    *)
(***************************************************************************)
fgcolor_ident == <<"f", "g", "c", "o", "l", "o", "r">>

\* Function.lookup keys: the only @Function.define in the module
FunctionLookup == { fgcolor_ident }

\* InfixOperator.lookup keys
InfixLookup == { <<"^">>, <<"_">>}

\* The macro store of the host, in creation order: (name, definition).
\*   m    := "#2"        a macro with two parameters
\*   name := "[#1]"      the macro of the documented scenario
\*   k    := "\m{x}{x}"  a body that calls a macro created before it
\*   r    := "\r"        a body that names its own identifier
MacroStore == <<
    [ident |-> <<"m">>,                definition |-> <<"#", "2">>],
    [ident |-> <<"n", "a", "m", "e">>, definition |-> <<"[", "#", "1", "]">>],
    [ident |-> <<"k">>,
     definition |-> <<"\\", "m", "{", "x", "}", "{", "x", "}">>],
    [ident |-> <<"r">>,                definition |-> <<"\\", "r">>] >>

\* Macro.lookup keys after the first k Macro.create calls
MacroIdents(k) == { MacroStore[n].ident : n \in 1..k }
MacroLookup == MacroIdents(Len(MacroStore))

(***************************************************************************)
(* normalize: one iteration of "while True" per raw token, then the flush  *)
(* after StopIteration.  The frame is f = [t0, normalized]; mlookup is the *)
(* set of keys of Macro.lookup at the time of the call.                    *)
(***************************************************************************)
VALUE_LIKE == {LITERAL, FUNCTION, MACRO, RBRACKET}

all_breaking_space(value) == \A p \in 1..Len(value) : is_breaking_space(value[p])

\* "if t0: yield t0"
yield_t0(f) == IF f.t0 # NoToken THEN Append(f.normalized, f.t0) ELSE f.normalized

\* variant of the escape branch that promotes every escaped name it does not
\* find in Function.lookup to a macro call
normalize_escaped_any(f, t1, mlookup) ==
    [f EXCEPT !.t0 = IF t1.value \in FunctionLookup THEN with_type(t1, FUNCTION)
                     ELSE with_type(t1, MACRO)]

\* branch "if t0 and t0.type == Token.ESCAPE": the escape is dropped
normalize_escaped(f, t1, mlookup) ==
    [f EXCEPT !.t0 = IF t1.value \in FunctionLookup THEN with_type(t1, FUNCTION)
                     ELSE IF t1.value \in mlookup THEN with_type(t1, MACRO)
                     ELSE t1]

\* branch "elif t1.value == '\\'"
normalize_escape(f, t1) ==
    [t0 |-> with_type(t1, ESCAPE), normalized |-> yield_t0(f)]

\* branch "elif t1.value in InfixOperator.lookup"
normalize_infix(f, t1) ==
    [t0 |-> with_type(t1, INFIX),
     normalized |->
        LET pre == IF f.t0 = NoToken \/ f.t0.type \notin VALUE_LIKE
                   THEN Append(f.normalized, Token(LITERAL, None, <<>>))
                   ELSE f.normalized
        IN  IF f.t0 # NoToken THEN Append(pre, f.t0) ELSE pre]

\* branch "elif t1.value == '{'"
normalize_lbracket(f, t1) ==
    [t0 |-> with_type(t1, LBRACKET),
     normalized |->
        IF f.t0 # NoToken /\ f.t0.type \in VALUE_LIKE
        THEN Append(yield_t0(f), Token(SPACE, None, <<>>))
        ELSE yield_t0(f)]

\* variant of the '}' branch that no longer gets the empty literal after a non-value token
normalize_rbracket_nolit(f, t1) ==
    [t0 |-> with_type(t1, RBRACKET), normalized |-> yield_t0(f)]

\* branch "elif t1.value == '}'"
normalize_rbracket(f, t1) ==
    [t0 |-> with_type(t1, RBRACKET),
     normalized |->
        IF f.t0 # NoToken /\ f.t0.type \notin VALUE_LIKE
        THEN Append(yield_t0(f), Token(LITERAL, None, <<>>))
        ELSE yield_t0(f)]

\* branch "elif all(is_breaking_space(c) for c in t1.value)"
normalize_space(f, t1) ==
    IF f.t0 # NoToken /\ f.t0.type = SPACE THEN
        [f EXCEPT !.t0 = Token(SPACE,
                               <<Min(f.t0.range[1], t1.range[1]),
                                 Max(f.t0.range[2], t1.range[2])>>,
                               f.t0.value \o t1.value)]
    ELSE
        [t0 |-> IF f.t0 # NoToken /\ f.t0.type \in VALUE_LIKE
                THEN with_type(t1, SPACE) ELSE with_type(t1, LITERAL),
         normalized |-> yield_t0(f)]

\* branch "else"
normalize_literal(f, t1) ==
    [t0 |-> with_type(t1, LITERAL),
     normalized |->
        IF f.t0 # NoToken /\ f.t0.type \in VALUE_LIKE
        THEN Append(yield_t0(f), Token(SPACE, None, <<>>))
        ELSE yield_t0(f)]

\* variant of the loop body that tests the infix rule before the escape rule
normalize_iter_infix_first(f, t1, mlookup) ==
    IF t1.value \in InfixLookup THEN normalize_infix(f, t1)
    ELSE IF f.t0 # NoToken /\ f.t0.type = ESCAPE THEN normalize_escaped(f, t1, mlookup)
    ELSE IF t1.value = <<"\\">>              THEN normalize_escape(f, t1)
    ELSE IF t1.value = <<"{">>               THEN normalize_lbracket(f, t1)
    ELSE IF t1.value = <<"}">>               THEN normalize_rbracket(f, t1)
    ELSE IF all_breaking_space(t1.value)     THEN normalize_space(f, t1)
    ELSE normalize_literal(f, t1)

\* body of "while True" after t1 = next(tokens)
normalize_iter(f, t1, mlookup) ==
    IF f.t0 # NoToken /\ f.t0.type = ESCAPE THEN normalize_escaped(f, t1, mlookup)
    ELSE IF t1.value = <<"\\">>              THEN normalize_escape(f, t1)
    ELSE IF t1.value \in InfixLookup         THEN normalize_infix(f, t1)
    ELSE IF t1.value = <<"{">>               THEN normalize_lbracket(f, t1)
    ELSE IF t1.value = <<"}">>               THEN normalize_rbracket(f, t1)
    ELSE IF all_breaking_space(t1.value)     THEN normalize_space(f, t1)
    ELSE normalize_literal(f, t1)

\* variant of the flush that yields the pending token and nothing after it
normalize_tail_bare(f) ==
    IF f.t0 = NoToken THEN f
    ELSE [f EXCEPT !.normalized = Append(f.normalized, f.t0)]

\* "if t0:" after the loop
normalize_tail(f) ==
    IF f.t0 = NoToken THEN f
    ELSE IF f.t0.type \notin VALUE_LIKE
    THEN [f EXCEPT !.normalized = Append(Append(f.normalized, f.t0),
                                         Token(LITERAL, None, <<>>))]
    ELSE [f EXCEPT !.normalized = Append(f.normalized, f.t0)]

RECURSIVE normalize_loop(_, _, _)
normalize_loop(f, raw, mlookup) ==
    IF raw = <<>> THEN normalize_tail(f)
    ELSE normalize_loop(normalize_iter(f, Head(raw), mlookup), Tail(raw), mlookup)

\* [*normalize(iter(raw))]
normalize(raw, mlookup) ==
    normalize_loop([t0 |-> NoToken, normalized |-> <<>>], raw, mlookup).normalized


(***************************************************************************)
(* Geometry algebra: Text, TextBox, TextGroup                              *)
(***************************************************************************)
Text(x, y, text)               == [x |-> x, y |-> y, text |-> text]
TextBox(width, height, baseline) == [width |-> width, height |-> height, baseline |-> baseline]
TextGroup(box, items)          == [box |-> box, items |-> items]

Text_from_str(text)      == Text(0, 0, text)
TextBox_from_str(text)   == TextBox(unicode_width(text), 1, 0)
TextBox_empty            == TextBox(0, 0, 0)
TextGroup_from_str(text) == TextGroup(TextBox_from_str(text), <<Text_from_str(text)>>)
TextGroup_empty          == TextGroup(TextBox_empty, <<>>)

\* Python None where a TextGroup is expected (arg of push_arg, result of a call)
NoGroup == TextGroup(TextBox(-1, -1, -1), <<>>)

\* TextGroup.concat with explicit offsets and baseline = None
concat(self, other, x_offset, y_offset) ==
    LET x0 == Min(0, x_offset)
        x1 == Max(self.box.width, other.box.width + x_offset)
        y0 == Min(0, y_offset)
        y1 == Max(self.box.height, other.box.height + y_offset)
        baseline == self.box.baseline - y0
    IN  TextGroup(TextBox(x1 - x0, y1 - y0, baseline),
                  [k \in 1..Len(self.items) |->
                        Text(self.items[k].x - x0, self.items[k].y - y0, self.items[k].text)]
                  \o
                  [k \in 1..Len(other.items) |->
                        Text(other.items[k].x + x_offset - x0,
                             other.items[k].y + y_offset - y0,
                             other.items[k].text)])

\* variant of the default offsets that ignores the baselines (y_offset = 0)
concat_default_level(self, other) ==
    concat(self, other, self.box.width, 0)

\* TextGroup.concat(other) with x_offset = y_offset = None
concat_default(self, other) ==
    concat(self, other, self.box.width, self.box.baseline - other.box.baseline)

(***************************************************************************)
(* Colours                                                                 *)
(***************************************************************************)
\* ansi_sgr(code): the escape string, kept as one unit of text
ansi_sgr(code) == << "ESC[" \o ToString(code) \o "m" >>

ANSI_BLACK          == ansi_sgr(30)
ANSI_RED            == ansi_sgr(31)
ANSI_GREEN          == ansi_sgr(32)
ANSI_YELLOW         == ansi_sgr(33)
ANSI_BLUE           == ansi_sgr(34)
ANSI_MAGENTA        == ansi_sgr(35)
ANSI_CYAN           == ansi_sgr(36)
ANSI_WHITE          == ansi_sgr(37)
ANSI_DEFAULT        == ansi_sgr(39)
ANSI_BRIGHT_BLACK   == ansi_sgr(90)
ANSI_BRIGHT_RED     == ansi_sgr(91)
ANSI_BRIGHT_GREEN   == ansi_sgr(92)
ANSI_BRIGHT_YELLOW  == ansi_sgr(93)
ANSI_BRIGHT_BLUE    == ansi_sgr(94)
ANSI_BRIGHT_MAGENTA == ansi_sgr(95)
ANSI_BRIGHT_CYAN    == ansi_sgr(96)
ANSI_BRIGHT_WHITE   == ansi_sgr(97)

FG_COLORS == <<
    [key |-> <<"b","l","a","c","k">>,                                 color |-> ANSI_BLACK],
    [key |-> <<"r","e","d">>,                                         color |-> ANSI_RED],
    [key |-> <<"g","r","e","e","n">>,                                 color |-> ANSI_GREEN],
    [key |-> <<"y","e","l","l","o","w">>,                             color |-> ANSI_YELLOW],
    [key |-> <<"b","l","u","e">>,                                     color |-> ANSI_BLUE],
    [key |-> <<"m","a","g","e","n","t","a">>,                         color |-> ANSI_MAGENTA],
    [key |-> <<"c","y","a","n">>,                                     color |-> ANSI_CYAN],
    [key |-> <<"l","i","g","h","t","g","r","a","y">>,                 color |-> ANSI_WHITE],
    [key |-> <<"l","i","g","h","t","g","r","e","y">>,                 color |-> ANSI_WHITE],
    [key |-> <<"d","a","r","k","g","r","a","y">>,                     color |-> ANSI_BRIGHT_BLACK],
    [key |-> <<"d","a","r","k","g","r","e","y">>,                     color |-> ANSI_BRIGHT_BLACK],
    [key |-> <<"b","r","i","g","h","t","r","e","d">>,                 color |-> ANSI_BRIGHT_RED],
    [key |-> <<"b","r","i","g","h","t","g","r","e","e","n">>,         color |-> ANSI_BRIGHT_GREEN],
    [key |-> <<"b","r","i","g","h","t","y","e","l","l","o","w">>,     color |-> ANSI_BRIGHT_YELLOW],
    [key |-> <<"b","r","i","g","h","t","b","l","u","e">>,             color |-> ANSI_BRIGHT_BLUE],
    [key |-> <<"b","r","i","g","h","t","m","a","g","e","n","t","a">>, color |-> ANSI_BRIGHT_MAGENTA],
    [key |-> <<"b","r","i","g","h","t","c","y","a","n">>,             color |-> ANSI_BRIGHT_CYAN],
    [key |-> <<"w","h","i","t","e">>,                                 color |-> ANSI_BRIGHT_WHITE] >>

FG_KEYS == { FG_COLORS[n].key : n \in 1..Len(FG_COLORS) }
FG_COLOR(key) == (CHOOSE e \in { FG_COLORS[n] : n \in 1..Len(FG_COLORS) } : e.key = key).color

\* str.lower() and str.strip() on the characters of the model
lower_char(c) == CASE c = "R" -> "r" [] c = "X" -> "x" [] OTHER -> c
lower(str) == [p \in 1..Len(str) |-> lower_char(str[p])]

is_whitespace(c) == c \in {" ", NBSP}
RECURSIVE lstrip(_)
lstrip(str) == IF str # <<>> /\ is_whitespace(Head(str)) THEN lstrip(Tail(str)) ELSE str
RECURSIVE rstrip(_)
rstrip(str) == IF str # <<>> /\ is_whitespace(str[Len(str)])
               THEN rstrip(SubSeq(str, 1, Len(str) - 1)) ELSE str
strip(str) == rstrip(lstrip(str))

(***************************************************************************)
(* fgcolor: the function behind Function.lookup['fgcolor'].                *)
(* tls is the thread-local store of with_tls: [set, state], set = FALSE    *)
(* while the attribute does not exist.  The result is what the call        *)
(* leaves: [tls, quirks, result, err], err naming the exception raised.    *)
(***************************************************************************)
NoTls == [set |-> FALSE, state |-> <<>>]

Last(seq)    == seq[Len(seq)]
Front(seq)   == SubSeq(seq, 1, Len(seq) - 1)

\* "for item in arg.items": first item whose key is in FG_COLORS
RECURSIVE fgcolor_find(_)
fgcolor_find(items) ==
    IF items = <<>> THEN [found |-> FALSE, color |-> None, err |-> ""]
    ELSE IF Head(items).text = None
    THEN [found |-> FALSE, color |-> None, err |-> "AttributeError"]
    ELSE LET key == lower(strip(Head(items).text))
         IN  IF key \in FG_KEYS
             THEN [found |-> TRUE, color |-> FG_COLOR(key), err |-> ""]
             ELSE fgcolor_find(Tail(items))

\* variant of the second phase that leaves the call's colour on the stack
fgcolor_phase2_keep(state, arg) ==
    LET prefix == Last(state)
        rest   == Front(state)
    IN  IF rest = <<>>
        THEN [tls |-> [set |-> TRUE, state |-> rest], quirks |-> <<>>,
              result |-> NoGroup, err |-> "IndexError"]
        ELSE [tls |-> [set |-> TRUE, state |-> state], quirks |-> <<>>,
              result |-> TextGroup(arg.box,
                            <<Text_from_str(prefix)>> \o arg.items
                                \o <<Text_from_str(Last(rest))>>),
              err |-> ""]

fgcolor_phase2(state, arg) ==
    LET prefix == Last(state)
        rest   == Front(state)
    IN  IF rest = <<>>
        THEN [tls |-> [set |-> TRUE, state |-> rest], quirks |-> <<>>,
              result |-> NoGroup, err |-> "IndexError"]
        ELSE [tls |-> [set |-> TRUE, state |-> rest], quirks |-> <<>>,
              result |-> TextGroup(arg.box,
                            <<Text_from_str(prefix)>> \o arg.items
                                \o <<Text_from_str(Last(rest))>>),
              err |-> ""]

\* "if state[-1] is None": f is the outcome of the search over arg.items
fgcolor_phase1(state, f) ==
    IF f.err # ""
    THEN [tls |-> [set |-> TRUE, state |-> state],
          quirks |-> <<>>, result |-> NoGroup, err |-> f.err]
    ELSE IF f.found
    THEN [tls |-> [set |-> TRUE, state |-> Append(Front(state), f.color)],
          quirks |-> <<>>, result |-> NoGroup, err |-> ""]
    ELSE [tls |-> [set |-> TRUE, state |-> Append(Front(state), ANSI_DEFAULT)],
          quirks |-> <<"failed to get color">>, result |-> NoGroup, err |-> ""]

\* the body of fgcolor once state = tls.state is bound
fgcolor_body(state, arg) ==
    IF arg = NoGroup
    THEN [tls |-> [set |-> TRUE, state |-> Append(state, None)],
          quirks |-> <<>>, result |-> NoGroup, err |-> ""]
    ELSE IF state = <<>>
    THEN [tls |-> [set |-> TRUE, state |-> state],
          quirks |-> <<>>, result |-> NoGroup, err |-> "IndexError"]
    ELSE IF Last(state) = None
    THEN fgcolor_phase1(state, fgcolor_find(arg.items))
    ELSE fgcolor_phase2(state, arg)

\* "try: state = tls.state / except AttributeError: state = [ANSI_DEFAULT]"
fgcolor(tls, arg) ==
    fgcolor_body(IF tls.set THEN tls.state ELSE <<ANSI_DEFAULT>>, arg)

(***************************************************************************)
(* Macros                                                                  *)
(***************************************************************************)
Digits == {"0", "1", "2", "3", "4", "5", "6", "7", "8", "9"}
digit_value(c) == CASE c = "0" -> 0 [] c = "1" -> 1 [] c = "2" -> 2 [] c = "3" -> 3
                    [] c = "4" -> 4 [] c = "5" -> 5 [] c = "6" -> 6 [] c = "7" -> 7
                    [] c = "8" -> 8 [] c = "9" -> 9

\* int(str) for a str of decimal digits
RECURSIVE int(_)
int(str) == IF str = <<>> THEN 0 ELSE 10 * int(Front(str)) + digit_value(Last(str))

\* Macro.match_group(token): the 0-based placeholder index, -1 for None
match_group(token) ==
    IF token.type # LITERAL THEN -1
    ELSE IF Len(token.value) < 2 THEN -1
    ELSE IF token.value[1] # "#" THEN -1
    ELSE IF \E p \in 2..Len(token.value) : token.value[p] \notin Digits THEN -1
    ELSE LET group == int(Tail(token.value)) - 1
         IN  IF 0 <= group THEN group ELSE -1

\* "for token in tokens: ... if group and group >= argn: argn = group + 1"
RECURSIVE create_argn(_, _)
create_argn(tokens_, argn) ==
    IF tokens_ = <<>> THEN argn
    ELSE LET group == match_group(Head(tokens_))
         IN  create_argn(Tail(tokens_),
                         IF group # -1 /\ group # 0 /\ group >= argn
                         THEN group + 1 ELSE argn)

Macro(ident, argn, tokens_) == [ident |-> ident, argn |-> argn, tokens |-> tokens_]

\* the body of Macro.create once tokens = [*normalize(tokenize(definition))] is bound
Macro_of_tokens(ident, tokens_) == Macro(ident, create_argn(tokens_, 0), tokens_)

\* Macro.create(ident, definition), called with Macro.lookup = mlookup
Macro_create(ident, definition, mlookup) ==
    Macro_of_tokens(ident, normalize(tokenize(definition), mlookup))

\* Macro.lookup[ident] after load_macros has created the whole store
Macro_index(ident) == CHOOSE n \in 1..Len(MacroStore) : MacroStore[n].ident = ident

Macro_created(n) ==
    Macro_create(MacroStore[n].ident, MacroStore[n].definition, MacroIdents(n - 1))

\* the dict Macro.lookup, filled once by load_macros before any layout call
Macro_objects == [n \in 1..Len(MacroStore) |-> Macro_created(n)]

Macro_lookup(ident) == Macro_objects[Macro_index(ident)]

\* an element of the list Macro.push_arg returns: a token or a TextGroup
TokenItem(token) == [is_group |-> FALSE, token |-> token, group |-> NoGroup]
GroupItem(group) == [is_group |-> TRUE, token |-> NoToken, group |-> group]

\* process_token over self.tokens; err is the first exception raised
RECURSIVE process_tokens(_, _, _)
process_tokens(macro, args, tokens_) ==
    IF tokens_ = <<>> THEN [items |-> <<>>, err |-> ""]
    ELSE IF Len(args) # macro.argn THEN [items |-> <<>>, err |-> "AssertionError"]
    ELSE LET token == Head(tokens_)
             group == match_group(token)
         IN  IF group # -1 /\ ~(group > macro.argn) /\ group >= Len(args)
             THEN [items |-> <<>>, err |-> "IndexError"]
             ELSE LET rest == process_tokens(macro, args, Tail(tokens_))
                      item == IF group = -1 \/ group > macro.argn
                              THEN TokenItem(token) ELSE GroupItem(args[group + 1])
                  IN  [items |-> <<item>> \o rest.items, err |-> rest.err]

\* Macro.push_arg(self, arg) on the thread-local Macro.tls: [tls, result, none, err];
\* none = TRUE when the method returns None
\* "args = state.pop()" and the returned list; r is the outcome of process_token
\* over self.tokens
Macro_expand(state, r) ==
    [tls |-> [set |-> TRUE, state |-> Front(state)],
     result |-> IF r.err = "" THEN r.items ELSE <<>>,
     none |-> FALSE, err |-> r.err]

\* "if len(state[-1]) < self.argn: return None", else the expansion
Macro_collect(macro, state) ==
    IF Len(Last(state)) < macro.argn
    THEN [tls |-> [set |-> TRUE, state |-> state], result |-> <<>>,
          none |-> TRUE, err |-> ""]
    ELSE Macro_expand(state, process_tokens(macro, Last(state), macro.tokens))

\* "if arg == None: state += [[]] / else: state[-1] += [arg]"
Macro_store_arg(macro, state, arg) ==
    IF arg # NoGroup /\ state = <<>>
    THEN [tls |-> [set |-> TRUE, state |-> state], result |-> <<>>, none |-> TRUE,
          err |-> "IndexError"]
    ELSE Macro_collect(macro,
            IF arg = NoGroup THEN Append(state, <<>>)
            ELSE Append(Front(state), Append(Last(state), arg)))

Macro_push_arg(macro, tls, arg) ==
    Macro_store_arg(macro, IF tls.set THEN tls.state ELSE <<>>, arg)

(***************************************************************************)
(* Infix operators                                                         *)
(***************************************************************************)
LEFT  == "LEFT"
RIGHT == "RIGHT"

\* variant of '^' that stacks the right operand below, as '_' does
infix_text_over_below(lhs, rhs) ==
    LET width    == Max(lhs.box.width, rhs.box.width)
        lhs_pad  == (width - lhs.box.width) \div 2
        rhs_pad  == (width - rhs.box.width) \div 2
        x_offset == rhs_pad - lhs_pad
        y_offset == 0 - rhs.box.height
    IN  concat(lhs, rhs, x_offset, y_offset)

infix_text_over(lhs, rhs) ==
    LET width    == Max(lhs.box.width, rhs.box.width)
        lhs_pad  == (width - lhs.box.width) \div 2
        rhs_pad  == (width - rhs.box.width) \div 2
        x_offset == rhs_pad - lhs_pad
        y_offset == lhs.box.height
    IN  concat(lhs, rhs, x_offset, y_offset)

\* variant of '_' that aligns both operands to the left instead of centring
infix_text_under_left(lhs, rhs) ==
    concat(lhs, rhs, 0, 0 - rhs.box.height)

infix_text_under(lhs, rhs) ==
    LET width    == Max(lhs.box.width, rhs.box.width)
        lhs_pad  == (width - lhs.box.width) \div 2
        rhs_pad  == (width - rhs.box.width) \div 2
        x_offset == rhs_pad - lhs_pad
        y_offset == 0 - rhs.box.height
    IN  concat(lhs, rhs, x_offset, y_offset)

\* variant of the registry in which both operators are right-associative
InfixOperator_right(symbol) ==
    [symbol |-> symbol, precedence |-> 10, associativity |-> RIGHT]

\* InfixOperator.lookup[symbol]
InfixOperator(symbol) ==
    IF symbol = <<"^">>
    THEN [symbol |-> symbol, precedence |-> 10, associativity |-> LEFT]
    ELSE [symbol |-> symbol, precedence |-> 10, associativity |-> LEFT]

\* op.evaluate(lhs, rhs)
infix_evaluate(symbol, lhs, rhs) ==
    IF symbol = <<"^">> THEN infix_text_over(lhs, rhs) ELSE infix_text_under(lhs, rhs)

(***************************************************************************)
(* layout.  A frame st holds the locals of one layout call (depth, output, *)
(* operators, quirks, max_width), the two thread-local stores the call     *)
(* works on (fg: fgcolor's, mac: Macro.tls), err = the exception that      *)
(* ended the call ("" while none), and fg_log, a history of the fgcolor    *)
(* invocations made by the call (it does not influence the evaluation).    *)
(***************************************************************************)
Quirk(msg, range_) == [msg |-> msg, range |-> range_]

FUNCTIONAL == {FUNCTION, MACRO}

raise(st, exc) == [st EXCEPT !.err = exc]

\* one record per Function.push_arg invocation of fgcolor
FgCall(token, arg, before, r, recorded) ==
    [range  |-> token.range,
     recorded |-> recorded,
     arg    |-> arg,
     before |-> IF before.set THEN before.state ELSE <<ANSI_DEFAULT>>,
     after  |-> r.tls.state,
     quirks |-> r.quirks,
     result |-> r.result,
     err    |-> r.err]

\* "quirks += [(quirk, token.scope, token.range) for quirk in quirks_]"
recorded_quirks(token, r) ==
    IF r.err # "" THEN <<>>
    ELSE [k \in 1..Len(r.quirks) |-> Quirk(r.quirks[k], token.range)]

\* the frame after Function.lookup[token.value].push_arg(arg) has left r
after_function(st, token, arg, r) ==
    [st EXCEPT !.fg = r.tls,
               !.fg_log = Append(@, FgCall(token, arg, st.fg, r, recorded_quirks(token, r))),
               !.quirks = @ \o recorded_quirks(token, r)]

RECURSIVE push_arg(_, _, _), push_function_result(_, _, _, _), push_result(_, _, _),
          push_macro_result(_, _, _), push_operator(_, _),
          evaluate(_, _), process_input(_, _), close_bracket(_),
          emit_macro_result(_, _), rbracket_loop(_, _), infix_loop(_, _), space_loop(_)

\* def push_arg(token, arg)
push_arg(st, token, arg) ==
    IF st.err # "" THEN st
    ELSE IF token.type = FUNCTION THEN
        IF token.value \notin FunctionLookup THEN raise(st, "KeyError")
        ELSE push_function_result(st, token, arg, fgcolor(st.fg, arg))
    ELSE IF token.type = MACRO THEN
        IF token.value \notin MacroLookup THEN raise(st, "KeyError")
        ELSE push_macro_result(st, token,
                               Macro_push_arg(Macro_lookup(token.value), st.mac, arg))
    ELSE raise(st, "AssertionError")

\* FUNCTION branch of push_arg after the call: "if quirks_: ... if result: ... else: ..."
push_function_result(st, token, arg, r) ==
    push_result(after_function(st, token, arg, r), token, r)

push_result(st, token, r) ==
    IF r.err # "" THEN raise(st, r.err)
    ELSE IF r.result # NoGroup
    THEN IF st.operators # <<>> /\ Last(st.operators).type = FUNCTION
         THEN push_arg([st EXCEPT !.operators = Front(@)], Last(st.operators), r.result)
         ELSE [st EXCEPT !.output = Append(@, r.result)]
    ELSE [st EXCEPT !.operators = Append(@, token)]

\* MACRO branch of push_arg after the call: "if result_: ... else: operators += [token]"
push_macro_result(st, token, r) ==
    IF r.err # "" THEN raise([st EXCEPT !.mac = r.tls], r.err)
    ELSE IF ~r.none /\ r.result # <<>>
    THEN emit_macro_result([st EXCEPT !.mac = r.tls], r.result)
    ELSE [st EXCEPT !.mac = r.tls, !.operators = Append(@, token)]

\* "for token_or_text in result_" of push_arg
emit_macro_result(st, items) ==
    IF st.err # "" \/ items = <<>> THEN st
    ELSE emit_macro_result(
            IF Head(items).is_group
            THEN [st EXCEPT !.output = Append(@, Head(items).group)]
            ELSE process_input(st, Head(items).token),
            Tail(items))

\* variant of evaluate whose SPACE branch wraps at every depth
evaluate_any_depth(st, token) ==
    IF st.err # "" THEN st
    ELSE IF token.type = FUNCTION THEN
        push_arg([st EXCEPT !.quirks =
                        Append(@, Quirk("missing argument for function", token.range))],
                 token, TextGroup_empty)
    ELSE IF token.type = INFIX THEN
        IF token.value \notin InfixLookup THEN raise(st, "KeyError")
        ELSE
        LET n   == Len(st.output)
            rhs == IF n >= 1 THEN st.output[n] ELSE TextGroup_empty
            lhs == IF n >= 2 THEN st.output[n - 1] ELSE TextGroup_empty
            out == IF n >= 2 THEN SubSeq(st.output, 1, n - 2) ELSE <<>>
        IN  [st EXCEPT !.quirks = IF n >= 2 THEN @
                                  ELSE Append(@, Quirk("missing operand", token.range)),
                       !.output = Append(out, infix_evaluate(token.value, lhs, rhs))]
    ELSE IF token.type = SPACE THEN
        LET n     == Len(st.output)
            rhs   == IF n >= 1 THEN st.output[n] ELSE TextGroup_empty
            lhs   == IF n >= 2 THEN st.output[n - 1] ELSE TextGroup_empty
            out   == IF n >= 2 THEN SubSeq(st.output, 1, n - 2) ELSE <<>>
            space == TextGroup_from_str(token.value)
        IN  IF lhs.box.width + space.box.width + rhs.box.width > st.max_width
            THEN [st EXCEPT !.output = out \o <<concat_default(lhs, space), rhs>>]
            ELSE [st EXCEPT !.output =
                    Append(out, concat_default(concat_default(lhs, space), rhs))]
    ELSE raise(st, "AssertionError")

\* def evaluate(token)
evaluate(st, token) ==
    IF st.err # "" THEN st
    ELSE IF token.type = FUNCTION THEN
        push_arg([st EXCEPT !.quirks =
                        Append(@, Quirk("missing argument for function", token.range))],
                 token, TextGroup_empty)
    ELSE IF token.type = INFIX THEN
        IF token.value \notin InfixLookup THEN raise(st, "KeyError")
        ELSE
        LET n   == Len(st.output)
            rhs == IF n >= 1 THEN st.output[n] ELSE TextGroup_empty
            lhs == IF n >= 2 THEN st.output[n - 1] ELSE TextGroup_empty
            out == IF n >= 2 THEN SubSeq(st.output, 1, n - 2) ELSE <<>>
        IN  [st EXCEPT !.quirks = IF n >= 2 THEN @
                                  ELSE Append(@, Quirk("missing operand", token.range)),
                       !.output = Append(out, infix_evaluate(token.value, lhs, rhs))]
    ELSE IF token.type = SPACE THEN
        LET n     == Len(st.output)
            rhs   == IF n >= 1 THEN st.output[n] ELSE TextGroup_empty
            lhs   == IF n >= 2 THEN st.output[n - 1] ELSE TextGroup_empty
            out   == IF n >= 2 THEN SubSeq(st.output, 1, n - 2) ELSE <<>>
            space == TextGroup_from_str(token.value)
        IN  IF st.depth <= 0
               /\ lhs.box.width + space.box.width + rhs.box.width > st.max_width
            THEN [st EXCEPT !.output = out \o <<concat_default(lhs, space), rhs>>]
            ELSE [st EXCEPT !.output =
                    Append(out, concat_default(concat_default(lhs, space), rhs))]
    ELSE raise(st, "AssertionError")

\* variant of the loop that lowers depth for an unmatched '}' as well
rbracket_loop_unmatched_dec(st, token) ==
    IF st.err # "" THEN st
    ELSE IF st.operators = <<>>
    THEN [st EXCEPT !.quirks = Append(@, Quirk("unmatched right brace", token.range)),
                    !.depth = @ - 1]
    ELSE LET token_ == Last(st.operators)
             st1    == [st EXCEPT !.operators = Front(@)]
         IN  IF token_.type = LBRACKET
             THEN [st1 EXCEPT !.depth = @ - 1]
             ELSE rbracket_loop(evaluate(st1, token_), token)

\* "while True" of the RBRACKET branch
rbracket_loop(st, token) ==
    IF st.err # "" THEN st
    ELSE IF st.operators = <<>>
    THEN [st EXCEPT !.quirks = Append(@, Quirk("unmatched right brace", token.range))]
    ELSE LET token_ == Last(st.operators)
             st1    == [st EXCEPT !.operators = Front(@)]
         IN  IF token_.type = LBRACKET
             THEN [st1 EXCEPT !.depth = @ - 1]
             ELSE rbracket_loop(evaluate(st1, token_), token)

\* "while operators" of the INFIX branch
infix_loop(st, token) ==
    IF st.err # "" \/ st.operators = <<>> THEN st
    ELSE LET token_ == Last(st.operators)
         IN  IF token_.value \notin InfixLookup THEN st
             ELSE LET op  == InfixOperator(token.value)
                      op_ == InfixOperator(token_.value)
                  IN  IF op.precedence > op_.precedence THEN st
                      ELSE IF op.associativity = RIGHT /\ op.precedence >= op_.precedence
                      THEN st
                      ELSE infix_loop(evaluate([st EXCEPT !.operators = Front(@)], token_),
                                      token)

\* "while operators and operators[-1].type != Token.LBRACKET" of the SPACE branch
space_loop(st) ==
    IF st.err # "" \/ st.operators = <<>> THEN st
    ELSE IF Last(st.operators).type = LBRACKET THEN st
    ELSE space_loop(evaluate([st EXCEPT !.operators = Front(@)], Last(st.operators)))

\* "if operators and operators[-1].type in FUNCTIONAL" after the loop of the
\* RBRACKET branch
close_bracket(st) ==
    IF st.err = "" /\ st.operators # <<>> /\ Last(st.operators).type \in FUNCTIONAL
    THEN IF st.output = <<>>
         THEN raise([st EXCEPT !.operators = Front(@)], "IndexError")
         ELSE push_arg([st EXCEPT !.operators = Front(@), !.output = Front(@)],
                       Last(st.operators), Last(st.output))
    ELSE st

\* "operators += [token]" after a loop of the INFIX or SPACE branch
push_operator(st, token) ==
    IF st.err # "" THEN st ELSE [st EXCEPT !.operators = Append(@, token)]

\* variant of process_input whose SPACE branch does not test for a parked call
process_input_space_pops(st, token) ==
    IF st.err # "" THEN st
    ELSE IF token.type \in FUNCTIONAL THEN push_arg(st, token, NoGroup)
    ELSE IF token.type = LBRACKET THEN
        [st EXCEPT !.operators = Append(@, token), !.depth = @ + 1]
    ELSE IF token.type = RBRACKET THEN close_bracket(rbracket_loop(st, token))
    ELSE IF token.type = INFIX THEN
        IF token.value \notin InfixLookup THEN raise(st, "KeyError")
        ELSE push_operator(infix_loop(st, token), token)
    ELSE IF token.type = SPACE THEN
        push_operator(space_loop(st), token)
    ELSE
        LET text == TextGroup_from_str(token.value)
        IN  IF st.operators # <<>> /\ Last(st.operators).type \in FUNCTIONAL
            THEN LET token_ == Last(st.operators)
                 IN  push_arg([st EXCEPT
                        !.operators = Front(@),
                        !.quirks = @ \o
                            <<Quirk("function/macro arguments should be grouped using brackets",
                                    token_.range),
                              Quirk("function/macro argument missing brackets",
                                    token.range)>>],
                        token_, text)
            ELSE [st EXCEPT !.output = Append(@, text)]

\* def process_input(token)
process_input(st, token) ==
    IF st.err # "" THEN st
    ELSE IF token.type \in FUNCTIONAL THEN push_arg(st, token, NoGroup)
    ELSE IF token.type = LBRACKET THEN
        [st EXCEPT !.operators = Append(@, token), !.depth = @ + 1]
    ELSE IF token.type = RBRACKET THEN close_bracket(rbracket_loop(st, token))
    ELSE IF token.type = INFIX THEN
        IF token.value \notin InfixLookup THEN raise(st, "KeyError")
        ELSE push_operator(infix_loop(st, token), token)
    ELSE IF token.type = SPACE THEN
        IF st.operators # <<>> /\ Last(st.operators).type \in FUNCTIONAL THEN st
        ELSE push_operator(space_loop(st), token)
    ELSE
        LET text == TextGroup_from_str(token.value)
        IN  IF st.operators # <<>> /\ Last(st.operators).type \in FUNCTIONAL
            THEN LET token_ == Last(st.operators)
                 IN  push_arg([st EXCEPT
                        !.operators = Front(@),
                        !.quirks = @ \o
                            <<Quirk("function/macro arguments should be grouped using brackets",
                                    token_.range),
                              Quirk("function/macro argument missing brackets",
                                    token.range)>>],
                        token_, text)
            ELSE [st EXCEPT !.output = Append(@, text)]

\* variant of the unwinding step that leaves the operator parked
unwind_iter_parked(st) == st

\* one iteration of "while operators" after the input is exhausted
unwind_iter(st) ==
    LET token == Last(st.operators)
        st1   == [st EXCEPT !.operators = Front(@)]
    IN  IF token.type = LBRACKET
        THEN [st1 EXCEPT !.quirks = Append(@, Quirk("unmatched left brace", token.range))]
        ELSE evaluate(st1, token)

\* variant of the check that takes an output of zero-width groups for empty
empty_check_width(st) ==
    IF \A k \in 1..Len(st.output) : st.output[k].box.width = 0
    THEN [st EXCEPT !.quirks = Append(@, Quirk("empty output", None))]
    ELSE st

\* "if not output: quirks += [('empty output', None, None)]"
empty_check(st) ==
    IF st.output = <<>>
    THEN [st EXCEPT !.quirks = Append(@, Quirk("empty output", None))]
    ELSE st

\* reduce(lambda output, line: output.concat(line, 0, -line.box.height), output, empty)
RECURSIVE stack_lines(_, _)
stack_lines(acc, lines) ==
    IF lines = <<>> THEN acc
    ELSE stack_lines(concat(acc, Head(lines), 0, 0 - Head(lines).box.height), Tail(lines))

(***************************************************************************)
(* tokenize and normalize as state machines (generator frames)             *)
(***************************************************************************)
NoLayout ==
    /\ tokens = <<>> /\ max_width = 0 /\ depth = 0 /\ output = <<>> /\ operators = <<>>
    /\ quirks = <<>> /\ lpc = "idle" /\ result = NoGroup /\ error = ""
    /\ fgcolor_tls = NoTls /\ macro_tls = NoTls /\ fg_log = <<>> /\ calls = 0

\* no library function is called directly
NoMacro == [ident |-> <<>>, argn |-> -1, tokens |-> <<>>]
NoMacroCall ==
    /\ macro_def = <<>> /\ macro_obj = NoMacro /\ pushed = <<>> /\ expansion = <<>>
    /\ mpc = "idle"
NoConcat ==
    /\ operand = NoGroup /\ with_empty = NoGroup /\ onto_empty = NoGroup
NoThreads ==
    /\ th_src = <<>> /\ th_tokens = <<>> /\ th_frame = <<>> /\ th_pc = <<>> /\ th_out = <<>>
    /\ fgcolor_local = <<>> /\ macro_local = <<>>
NoBreaks == maybe_break_after = {} /\ bpc = "idle"
NoLoad ==
    /\ macros_db = <<>> /\ load_macros = None /\ called = FALSE /\ created = <<>>
    /\ load_calls = 0 /\ load_caller = "" /\ load_error = ""
NoPractice ==
    /\ counter = 0 /\ session_cards = <<>> /\ round_rows = <<>> /\ ready = {}
    /\ current = <<>> /\ done = <<>> /\ history = <<>> /\ rounds = 0 /\ revises = 0
NoFormatter ==
    /\ formatter_text = <<>> /\ formatter_cols = 0 /\ formatter_lines = <<>>
    /\ line_start = 0 /\ line_break = 0 /\ fpc = "idle"
NoInput ==
    /\ input_text = <<>> /\ cursor = 0 /\ getwch = <<>>
    /\ preview_front = <<>> /\ preview_back = <<>> /\ edit_front = TRUE
NoDecks ==
    /\ card_deck = <<>> /\ db_session_decks = {} /\ db_session_cards = <<>>
    /\ db_call = <<>> /\ studies = 0
NoLib == NoMacroCall /\ NoConcat /\ NoThreads /\ NoBreaks /\ NoLoad /\ NoPractice /\ NoFormatter /\ NoInput /\ NoDecks

NoTokNorm ==
    /\ breaks = {} /\ i = 0 /\ j = 0 /\ yielded = <<>> /\ tpc = "idle"
    /\ tokens_in = <<>> /\ t0 = NoToken /\ normalized = <<>> /\ npc = "idle"

TokChars == {"a", " ", "{", "^", "#", "-", ".", CJK}

InitTok ==
    /\ NoLib
    /\ s \in SeqsUpTo(TokChars, MaxLen)
    /\ breaks = token_boundaries(s)
    /\ i = 0 /\ j = 0 /\ yielded = <<>> /\ tpc = "loop"
    /\ tokens_in = <<>> /\ t0 = NoToken /\ normalized = <<>> /\ npc = "idle"
    /\ NoLayout

TokenizeIter ==
    /\ tpc = "loop" /\ j < Len(s)
    /\ LET f == tokenize_iter(s, [breaks |-> breaks, i |-> i, j |-> j, yielded |-> yielded])
       IN  i' = f.i /\ j' = f.j /\ yielded' = f.yielded
    /\ UNCHANGED <<s, breaks, tpc>>
    /\ UNCHANGED normVars /\ UNCHANGED layVars /\ UNCHANGED libVars

TokenizeTail ==
    /\ tpc = "loop" /\ j >= Len(s)
    /\ LET f == tokenize_tail(s, [breaks |-> breaks, i |-> i, j |-> j, yielded |-> yielded])
       IN  i' = f.i /\ j' = f.j /\ yielded' = f.yielded
    /\ tpc' = "done"
    /\ UNCHANGED <<s, breaks>>
    /\ UNCHANGED normVars /\ UNCHANGED layVars /\ UNCHANGED libVars

NextTok == TokenizeIter \/ TokenizeTail
SpecTok == InitTok /\ [][NextTok]_vars

\* The sources given to normalize(tokenize(.)): concatenations of these pieces
NormPieces == { <<"a">>, <<" ">>, <<"{">>, <<"}">>, <<"^">>, <<"\\">>, <<".">>,
                fgcolor_ident, <<"m">> }

InitNorm ==
    /\ NoLib
    /\ \E pieces \in SeqsUpTo(NormPieces, MaxRaw) : s = Flatten(pieces)
    /\ breaks = {} /\ i = 0 /\ j = 0 /\ yielded = <<>> /\ tpc = "idle"
    /\ tokens_in = tokenize(s) /\ t0 = NoToken /\ normalized = <<>> /\ npc = "loop"
    /\ NoLayout

NormalizeIter ==
    /\ npc = "loop" /\ tokens_in # <<>>
    /\ LET f == normalize_iter([t0 |-> t0, normalized |-> normalized],
                               Head(tokens_in), MacroLookup)
       IN  t0' = f.t0 /\ normalized' = f.normalized
    /\ tokens_in' = Tail(tokens_in)
    /\ UNCHANGED npc
    /\ UNCHANGED s /\ UNCHANGED tokVars /\ UNCHANGED layVars /\ UNCHANGED libVars

NormalizeTail ==
    /\ npc = "loop" /\ tokens_in = <<>>
    /\ LET f == normalize_tail([t0 |-> t0, normalized |-> normalized])
       IN  t0' = f.t0 /\ normalized' = f.normalized
    /\ npc' = "done"
    /\ UNCHANGED tokens_in
    /\ UNCHANGED s /\ UNCHANGED tokVars /\ UNCHANGED layVars /\ UNCHANGED libVars

NextNorm == NormalizeIter \/ NormalizeTail
SpecNorm == InitNorm /\ [][NextNorm]_vars

(***************************************************************************)
(* layout as a state machine: one step per token of the input, one per     *)
(* iteration of the unwinding loop, one for the final check and fold.      *)
(***************************************************************************)
Frame == [depth |-> depth, output |-> output, operators |-> operators,
          quirks |-> quirks, max_width |-> max_width,
          fg |-> fgcolor_tls, mac |-> macro_tls, err |-> error, fg_log |-> fg_log]

\* locals of layout on entry
NewFrame(max_width_, fg, mac) ==
    [depth |-> 0, output |-> <<>>, operators |-> <<>>, quirks |-> <<>>,
     max_width |-> max_width_, fg |-> fg, mac |-> mac, err |-> "", fg_log |-> <<>>]

SetFrame(st) ==
    /\ depth' = st.depth /\ output' = st.output /\ operators' = st.operators
    /\ quirks' = st.quirks /\ fgcolor_tls' = st.fg /\ macro_tls' = st.mac
    /\ error' = st.err /\ fg_log' = st.fg_log

\* the whole call, for a given state of the thread-local stores
RECURSIVE layout_input(_, _)
layout_input(st, tokens_) ==
    IF tokens_ = <<>> THEN st
    ELSE layout_input(process_input(st, Head(tokens_)), Tail(tokens_))

RECURSIVE layout_unwind(_)
layout_unwind(st) ==
    IF st.err # "" \/ st.operators = <<>> THEN st ELSE layout_unwind(unwind_iter(st))

layout(tokens_, max_width_, fg, mac) ==
    LET st == layout_unwind(layout_input(NewFrame(max_width_, fg, mac), tokens_))
    IN  IF st.err # ""
        THEN [quirks |-> <<>>, result |-> NoGroup, err |-> st.err]
        ELSE [quirks |-> empty_check(st).quirks,
              result |-> stack_lines(TextGroup_empty, st.output), err |-> ""]

\* the sources given to layout(normalize(tokenize(.)), max_width)
LayPieces == { <<"x">>, <<".">>, <<" ">>, <<"{">>, <<"}">>, <<"^">>,
               <<"\\">> \o fgcolor_ident,
               <<"\\">> \o fgcolor_ident \o <<"{", "R", "e", "d", "}">>,
               <<"\\", "m">> }

\* single-literal operands of several widths, for x^y and x_y
Operands == { <<"x">>, <<CJK>>, <<"x", "x", "x">>, <<"x", "x", "x", "x">> }
StackSources == { x \o op \o y : x \in Operands, y \in Operands, op \in InfixLookup }

\* the documented scenarios: a complete fgcolor call, an unclosed brace, a line
\* that has to wrap, the macro call "\name{x}" and the literal "[x]"; an
\* fgcolor call nested in the colour-name argument of another; and calls of the
\* macros whose bodies name macros, one followed by an fgcolor call left open
Scenarios == { <<"\\">> \o fgcolor_ident \o <<"{", "R", "e", "d", "}", "{", "x", "}">>,
               <<"\\">> \o fgcolor_ident \o <<"{", "\\">> \o fgcolor_ident
                    \o <<"{", "R", "e", "d", "}", "{", "x", "}", "}">>,
               <<"{", "x">>,
               <<"x", " ", "x", " ", "x">>,
               <<"\\", "n", "a", "m", "e", "{", "x", "}">>,
               <<"[", "x", "]">>,
               <<"\\", "k">>, <<"\\", "r">>,
               <<"\\", "k", "\\">> \o fgcolor_ident }

\* words inside a bracket pair that are wider than the narrow width together
BracketSources == { <<"{", "x", "x", " ", "x", "x", "}">>,
                    <<"{", "x", "x", " ", "x", "x">>,
                    <<"x", "x", " ", "{", "x", "x", " ", "x", "x", "}">>,
                    <<"{", "x", "x", " ", "x", "x", " ", "x", "x", "}">> }

\* sources that leave several values on the output stack at the narrow width:
\* a line followed by a stack of two rows, a line followed by an fgcolor
\* call without arguments, and a word followed by a punctuation token
LineSources == { <<"x", "x", "x", " ", "x", "^", "x">>,
                 <<"x", "x", "x", " ", "\\">> \o fgcolor_ident,
                 <<"x", "x", "x", ".">> }

\* a space outside every bracket, followed by a '{' that is never closed
OpenSources == { <<"x", "x", "x", " ", "{", "x", "x">>,
                 <<"x", "x", "x", " ", "{">> }

\* three distinct operands joined by infix operators and spaces: x^y_z, x y^z, ...
Joiners == InfixLookup \cup { <<" ">> }
InfixSources == { <<"x">> \o o1 \o <<"y">> \o o2 \o <<"z">> : o1 \in Joiners, o2 \in Joiners }

Widths == {3, 20}

\* entry of layout(normalize(tokenize(src)), width)
Enter(src, width) ==
    /\ s' = src
    /\ max_width' = width
    /\ tokens' = normalize(tokenize(src), MacroLookup)
    /\ depth' = 0 /\ output' = <<>> /\ operators' = <<>> /\ quirks' = <<>>
    /\ error' = "" /\ fg_log' = <<>> /\ result' = NoGroup
    /\ lpc' = IF tokens' = <<>> THEN "unwind" ELSE "input"

\* a fresh thread makes one call
InitLayout ==
    /\ NoLib
    /\ NoTokNorm
    /\ s \in { Flatten(pieces) : pieces \in SeqsUpTo(LayPieces, MaxPieces) }
                \cup StackSources \cup Scenarios \cup InfixSources
                \cup BracketSources \cup LineSources \cup OpenSources
    /\ max_width \in Widths
    /\ tokens = normalize(tokenize(s), MacroLookup)
    /\ depth = 0 /\ output = <<>> /\ operators = <<>> /\ quirks = <<>>
    /\ error = "" /\ fg_log = <<>> /\ result = NoGroup
    /\ lpc = IF tokens = <<>> THEN "unwind" ELSE "input"
    /\ fgcolor_tls = NoTls /\ macro_tls = NoTls /\ calls = 1

\* "for token in tokens: process_input(token)"
LayoutToken ==
    /\ lpc = "input" /\ tokens # <<>>
    /\ LET st == process_input(Frame, Head(tokens))
       IN  /\ SetFrame(st)
           /\ lpc' = IF st.err # "" THEN "raised"
                     ELSE IF Tail(tokens) = <<>> THEN "unwind" ELSE "input"
    /\ tokens' = Tail(tokens)
    /\ UNCHANGED <<s, max_width, result, calls>>
    /\ UNCHANGED tokVars /\ UNCHANGED normVars /\ UNCHANGED libVars

\* "while operators: ..."
LayoutUnwind ==
    /\ lpc = "unwind" /\ operators # <<>>
    /\ LET st == unwind_iter(Frame)
       IN  /\ SetFrame(st)
           /\ lpc' = IF st.err # "" THEN "raised" ELSE "unwind"
    /\ UNCHANGED <<s, tokens, max_width, result, calls>>
    /\ UNCHANGED tokVars /\ UNCHANGED normVars /\ UNCHANGED libVars

\* the empty-output check and the return statement
LayoutReturn ==
    /\ lpc = "unwind" /\ operators = <<>>
    /\ quirks' = empty_check(Frame).quirks
    /\ result' = stack_lines(TextGroup_empty, output)
    /\ lpc' = "returned"
    /\ UNCHANGED <<s, tokens, max_width, depth, output, operators, error,
                   fgcolor_tls, macro_tls, fg_log, calls>>
    /\ UNCHANGED tokVars /\ UNCHANGED normVars /\ UNCHANGED libVars

NextLayout == LayoutToken \/ LayoutUnwind \/ LayoutReturn
SpecLayout == InitLayout /\ [][NextLayout]_vars

(***************************************************************************)
(* One layout call whose unwinding loop and return are never suspended:    *)
(* once the input is exhausted the call runs on its thread without waiting *)
(* for anything, so an iteration of "while operators" or the return        *)
(* statement that can be taken is taken.                                   *)
(***************************************************************************)
FairPieces == LayPieces \cup { <<"\\", "k">>, <<"\\", "r">> }

InitFair ==
    /\ NoLib
    /\ NoTokNorm
    /\ s \in { Flatten(pieces) : pieces \in SeqsUpTo(FairPieces, MaxFairPieces) }
                \cup Scenarios
    /\ max_width \in Widths
    /\ tokens = normalize(tokenize(s), MacroLookup)
    /\ depth = 0 /\ output = <<>> /\ operators = <<>> /\ quirks = <<>>
    /\ error = "" /\ fg_log = <<>> /\ result = NoGroup
    /\ lpc = IF tokens = <<>> THEN "unwind" ELSE "input"
    /\ fgcolor_tls = NoTls /\ macro_tls = NoTls /\ calls = 1

SpecLayoutFair ==
    InitFair /\ [][NextLayout]_vars /\ WF_vars(LayoutUnwind) /\ WF_vars(LayoutReturn)

(***************************************************************************)
(* A session: one thread makes several layout calls, one after the other,  *)
(* as the UI does on every redraw.  The thread-local stores live on.       *)
(***************************************************************************)
SessionPieces == { <<"x">>, <<"{">>, <<"}">>,
                   <<"\\">> \o fgcolor_ident,
                   <<"\\">> \o fgcolor_ident \o <<"{", "R", "e", "d", "}">>,
                   <<"\\", "m">> }

InitSession ==
    /\ NoLib
    /\ NoTokNorm /\ NoLayout /\ s = <<>>

Call ==
    /\ lpc \in {"idle", "returned", "raised"}
    /\ calls < MaxCalls
    /\ \E pieces \in SeqsUpTo(SessionPieces, MaxSessionPieces), width \in Widths :
            Enter(Flatten(pieces), width)
    /\ calls' = calls + 1
    /\ UNCHANGED <<fgcolor_tls, macro_tls>>
    /\ UNCHANGED tokVars /\ UNCHANGED normVars /\ UNCHANGED libVars

NextSession == Call \/ LayoutToken \/ LayoutUnwind \/ LayoutReturn
SpecSession == InitSession /\ [][NextSession]_vars

(***************************************************************************)
(* Macro.create(ident, definition) followed by push_arg calls on the       *)
(* created macro, as load_macros and layout.push_arg make them             *)
(***************************************************************************)
MacroPieces == { <<"#", "1">>, <<"#", "2">>, <<"#", "3">>, <<"#", "0">>, <<"#">>,
                 <<"x">>, <<" ">>, <<"{">> }

\* bodies of the documented macros: "[#1]" and a body with #1 and #3
MacroScenarios == { <<"[", "#", "1", "]">>,
                    <<"#", "1", " ", "a", "n", "d", " ", "#", "3">> }

MacroArgs == { NoGroup, TextGroup_from_str(<<"x">>) }

InitMacro ==
    /\ NoTokNorm /\ NoLayout /\ s = <<>> /\ NoConcat /\ NoThreads /\ NoBreaks /\ NoLoad /\ NoPractice /\ NoFormatter /\ NoInput /\ NoDecks
    /\ macro_def \in { Flatten(pieces) : pieces \in SeqsUpTo(MacroPieces, MaxBodyPieces) }
                         \cup MacroScenarios
    /\ macro_obj = NoMacro /\ pushed = <<>> /\ expansion = <<>>
    /\ mpc = "create"

\* Macro.create(ident, definition) with an identifier not used before
MacroCreate ==
    /\ mpc = "create"
    /\ macro_obj' = Macro_create(<<"t">>, macro_def, MacroLookup)
    /\ mpc' = "created"
    /\ UNCHANGED <<s, macro_def, pushed, expansion>>
    /\ UNCHANGED tokVars /\ UNCHANGED normVars /\ UNCHANGED layVars
    /\ UNCHANGED concVars /\ UNCHANGED thrVars /\ UNCHANGED brkVars /\ UNCHANGED loadVars /\ UNCHANGED pracVars /\ UNCHANGED fmtVars /\ UNCHANGED inputVars /\ UNCHANGED deckVars

\* the result of macro.push_arg(arg) is bound
MacroPushed(arg, r) ==
    /\ macro_tls' = r.tls
    /\ expansion' = r.result
    /\ pushed' = Append(pushed, arg)
    /\ mpc' = IF r.err # "" THEN "raised" ELSE "created"

\* macro.push_arg(arg): None opens a call, a TextGroup is its next argument
MacroPushArg ==
    /\ mpc = "created"
    /\ Len(pushed) < MaxPushes
    /\ \E arg \in MacroArgs : MacroPushed(arg, Macro_push_arg(macro_obj, macro_tls, arg))
    /\ UNCHANGED <<s, macro_def, macro_obj>>
    /\ UNCHANGED <<tokens, max_width, depth, output, operators, quirks, lpc, result,
                   error, fgcolor_tls, fg_log, calls>>
    /\ UNCHANGED tokVars /\ UNCHANGED normVars /\ UNCHANGED concVars
    /\ UNCHANGED thrVars /\ UNCHANGED brkVars /\ UNCHANGED loadVars /\ UNCHANGED pracVars /\ UNCHANGED fmtVars /\ UNCHANGED inputVars /\ UNCHANGED deckVars

NextMacro == MacroCreate \/ MacroPushArg
SpecMacro == InitMacro /\ [][NextMacro]_vars

(***************************************************************************)
(* TextGroup.concat with TextGroup.empty() on either side, default offsets *)
(***************************************************************************)
\* the groups A with 0 <= baseline <= height
ConcatBoxes == { TextBox(w, h, b) : w \in 0..MaxDim, h \in 0..MaxDim, b \in 0..MaxDim }
ConcatTexts == { Text(x, y, <<"x">>) : x \in 0..1, y \in -1..1 }
ConcatGroups == { TextGroup(box, items) :
                    box \in { bx \in ConcatBoxes : bx.baseline <= bx.height },
                    items \in SeqsUpTo(ConcatTexts, MaxItems) }

InitConcat ==
    /\ NoTokNorm /\ NoLayout /\ s = <<>> /\ NoMacroCall /\ NoThreads /\ NoBreaks /\ NoLoad /\ NoPractice /\ NoFormatter /\ NoInput /\ NoDecks
    /\ operand \in ConcatGroups
    /\ with_empty = NoGroup /\ onto_empty = NoGroup

\* A.concat(TextGroup.empty())
ConcatEmpty ==
    /\ with_empty = NoGroup
    /\ with_empty' = concat_default(operand, TextGroup_empty)
    /\ UNCHANGED <<s, operand, onto_empty>>
    /\ UNCHANGED tokVars /\ UNCHANGED normVars /\ UNCHANGED layVars /\ UNCHANGED macVars
    /\ UNCHANGED thrVars /\ UNCHANGED brkVars /\ UNCHANGED loadVars /\ UNCHANGED pracVars /\ UNCHANGED fmtVars /\ UNCHANGED inputVars /\ UNCHANGED deckVars

\* TextGroup.empty().concat(A)
EmptyConcat ==
    /\ onto_empty = NoGroup
    /\ onto_empty' = concat_default(TextGroup_empty, operand)
    /\ UNCHANGED <<s, operand, with_empty>>
    /\ UNCHANGED tokVars /\ UNCHANGED normVars /\ UNCHANGED layVars /\ UNCHANGED macVars
    /\ UNCHANGED thrVars /\ UNCHANGED brkVars /\ UNCHANGED loadVars /\ UNCHANGED pracVars /\ UNCHANGED fmtVars /\ UNCHANGED inputVars /\ UNCHANGED deckVars

NextConcat == ConcatEmpty \/ EmptyConcat
SpecConcat == InitConcat /\ [][NextConcat]_vars

(***************************************************************************)
(* Two threads, each making one layout call.  fgcolor's tls and Macro.tls  *)
(* are threading.local objects: reading tls.state in a thread gives the    *)
(* attribute that this thread has set.  A step of a thread is one          *)
(* iteration of layout's loops (one process_input call, with the push_arg  *)
(* calls it makes, or one iteration of the unwinding loop).                *)
(***************************************************************************)
Threads == {1, 2}

\* variant of the store access with one state shared by all threads (a plain
\* object in place of threading.local)
local_get_shared(local, thread) == local[1]

\* tls.state as seen by a thread
local_get(local, thread) == local[thread]

ThreadPieces == { <<"\\">> \o fgcolor_ident, <<"\\", "m">>,
                  <<"{", "R", "e", "d", "}">>, <<"{", "x", "}">>, <<"x">> }

\* complete fgcolor and macro calls, a macro call inside an fgcolor call, and
\* calls left open at the end of input
ThreadScenarios == {
    <<"\\">> \o fgcolor_ident \o <<"{", "R", "e", "d", "}", "{", "x", "}">>,
    <<"\\", "m", "{", "x", "}", "{", "x", "}">>,
    <<"\\">> \o fgcolor_ident \o <<"{", "R", "e", "d", "}", "{", "\\", "m", "{", "x", "}", "{", "x", "}", "}">>,
    <<"\\">> \o fgcolor_ident \o <<"\\", "m">> }

ThreadStart(src) ==
    [tokens |-> normalize(tokenize(src), MacroLookup),
     pc |-> IF normalize(tokenize(src), MacroLookup) = <<>> THEN "unwind" ELSE "input"]

InitThreads ==
    /\ NoTokNorm /\ NoLayout /\ s = <<>> /\ NoMacroCall /\ NoConcat /\ NoBreaks /\ NoLoad /\ NoPractice /\ NoFormatter /\ NoInput /\ NoDecks
    /\ \E src1 \in { Flatten(pieces) : pieces \in SeqsUpTo(ThreadPieces, MaxThreadPieces) }
                      \cup ThreadScenarios,
          src2 \in ThreadScenarios :
            th_src = <<src1, src2>>
    /\ th_tokens = [t \in Threads |-> ThreadStart(th_src[t]).tokens]
    /\ th_pc = [t \in Threads |-> ThreadStart(th_src[t]).pc]
    /\ th_frame = [t \in Threads |-> NewFrame(20, NoTls, NoTls)]
    /\ th_out = [t \in Threads |-> [quirks |-> <<>>, result |-> NoGroup]]
    /\ fgcolor_local = [t \in Threads |-> NoTls]
    /\ macro_local = [t \in Threads |-> NoTls]

\* the frame of a thread with the stores as this thread sees them
ThreadFrame(t) ==
    [th_frame[t] EXCEPT !.fg = local_get(fgcolor_local, t),
                        !.mac = local_get(macro_local, t)]

\* a step of thread t has left the frame st
ThreadStepped(t, st, pc) ==
    /\ th_frame' = [th_frame EXCEPT ![t] = st]
    /\ fgcolor_local' = [fgcolor_local EXCEPT ![t] = st.fg]
    /\ macro_local' = [macro_local EXCEPT ![t] = st.mac]
    /\ th_pc' = [th_pc EXCEPT ![t] = IF st.err # "" THEN "raised" ELSE pc]

\* "for token in tokens: process_input(token)" in thread t
ThreadToken(t) ==
    /\ th_pc[t] = "input"
    /\ ThreadStepped(t, process_input(ThreadFrame(t), Head(th_tokens[t])),
                     IF Tail(th_tokens[t]) = <<>> THEN "unwind" ELSE "input")
    /\ th_tokens' = [th_tokens EXCEPT ![t] = Tail(th_tokens[t])]
    /\ UNCHANGED <<th_src, th_out>>
    /\ UNCHANGED s /\ UNCHANGED tokVars /\ UNCHANGED normVars /\ UNCHANGED layVars
    /\ UNCHANGED macVars /\ UNCHANGED concVars /\ UNCHANGED brkVars /\ UNCHANGED loadVars /\ UNCHANGED pracVars /\ UNCHANGED fmtVars /\ UNCHANGED inputVars /\ UNCHANGED deckVars

\* "while operators: ..." in thread t
ThreadUnwind(t) ==
    /\ th_pc[t] = "unwind" /\ th_frame[t].operators # <<>>
    /\ ThreadStepped(t, unwind_iter(ThreadFrame(t)), "unwind")
    /\ UNCHANGED <<th_src, th_tokens, th_out>>
    /\ UNCHANGED s /\ UNCHANGED tokVars /\ UNCHANGED normVars /\ UNCHANGED layVars
    /\ UNCHANGED macVars /\ UNCHANGED concVars /\ UNCHANGED brkVars /\ UNCHANGED loadVars /\ UNCHANGED pracVars /\ UNCHANGED fmtVars /\ UNCHANGED inputVars /\ UNCHANGED deckVars

\* the empty-output check and the return statement in thread t
ThreadReturn(t) ==
    /\ th_pc[t] = "unwind" /\ th_frame[t].operators = <<>>
    /\ th_out' = [th_out EXCEPT ![t] =
                    [quirks |-> empty_check(ThreadFrame(t)).quirks,
                     result |-> stack_lines(TextGroup_empty, th_frame[t].output)]]
    /\ th_pc' = [th_pc EXCEPT ![t] = "returned"]
    /\ UNCHANGED <<th_src, th_tokens, th_frame, fgcolor_local, macro_local>>
    /\ UNCHANGED s /\ UNCHANGED tokVars /\ UNCHANGED normVars /\ UNCHANGED layVars
    /\ UNCHANGED macVars /\ UNCHANGED concVars /\ UNCHANGED brkVars /\ UNCHANGED loadVars /\ UNCHANGED pracVars /\ UNCHANGED fmtVars /\ UNCHANGED inputVars /\ UNCHANGED deckVars

NextThreads ==
    \/ \E t \in Threads : ThreadToken(t)
    \/ \E t \in Threads : ThreadUnwind(t)
    \/ \E t \in Threads : ThreadReturn(t)
SpecThreads == InitThreads /\ [][NextThreads]_vars

(***************************************************************************)
(* line_break_opportunities called on one string                           *)
(***************************************************************************)
\* one character of every class the function distinguishes
BreakChars == {"a", " ", NBSP, ZWSP, "-", NBHY, CJK, KANA, KDOT, ".", "{", "}", "^"}

InitBreaks ==
    /\ NoTokNorm /\ NoLayout /\ NoMacroCall /\ NoConcat /\ NoThreads /\ NoLoad /\ NoPractice /\ NoFormatter /\ NoInput /\ NoDecks
    /\ s \in SeqsUpTo(BreakChars, MaxBreakLen)
    /\ maybe_break_after = {} /\ bpc = "idle"

\* maybe_break_after = line_break_opportunities(s)
LineBreakOpportunities ==
    /\ bpc = "idle"
    /\ maybe_break_after' = line_break_opportunities(s)
    /\ bpc' = "returned"
    /\ UNCHANGED s /\ UNCHANGED tokVars /\ UNCHANGED normVars /\ UNCHANGED layVars
    /\ UNCHANGED macVars /\ UNCHANGED concVars /\ UNCHANGED thrVars /\ UNCHANGED loadVars /\ UNCHANGED pracVars /\ UNCHANGED fmtVars /\ UNCHANGED inputVars /\ UNCHANGED deckVars

NextBreaks == LineBreakOpportunities
SpecBreaks == InitBreaks /\ [][NextBreaks]_vars

(***************************************************************************)
(* load_macros of flashcards.py, called by run_editor and cmd_start        *)
(***************************************************************************)
\* names of the rows of the macros table (the column is UNIQUE)
StoredNames == {"m1", "m2", "m3"}
StoredRows == { r \in SeqsUpTo(StoredNames, MaxStored) :
                    \A a, b \in 1..Len(r) : r[a] = r[b] => a = b }
Callers == {"run_editor", "cmd_start"}

\* once(f): the def builds g and ends without a return statement, so the
\* decorated name is bound to None
once(f) == None

\* the body of g: f (Macro.create for every row that list_macros returns) runs
\* when called is still False; called becomes True
g_call(is_called, log, rows) ==
    [called |-> TRUE, created |-> IF is_called THEN log ELSE log \o rows]

\* a process before its first call: the table holds any rows, the module has
\* been imported (load_macros is what the decorator returned)
InitLoad ==
    /\ NoTokNorm /\ NoLayout /\ s = <<>>
    /\ NoMacroCall /\ NoConcat /\ NoThreads /\ NoBreaks /\ NoPractice /\ NoFormatter /\ NoInput /\ NoDecks
    /\ macros_db \in StoredRows
    /\ load_macros = once("load_macros")
    /\ called = FALSE /\ created = <<>>
    /\ load_calls = 0 /\ load_caller = "" /\ load_error = ""

\* load_macros(db) in run_editor or cmd_start: calling the name bound to None
\* raises TypeError; a closure would run g
CallLoadMacros(caller) ==
    /\ load_calls < MaxLoadCalls
    /\ load_calls' = load_calls + 1 /\ load_caller' = caller
    /\ IF load_macros = None
       THEN load_error' = "TypeError" /\ UNCHANGED <<called, created>>
       ELSE /\ load_error' = ""
            /\ called' = g_call(called, created, macros_db).called
            /\ created' = g_call(called, created, macros_db).created
    /\ UNCHANGED <<macros_db, load_macros>>
    /\ UNCHANGED s /\ UNCHANGED tokVars /\ UNCHANGED normVars /\ UNCHANGED layVars
    /\ UNCHANGED macVars /\ UNCHANGED concVars /\ UNCHANGED thrVars /\ UNCHANGED brkVars
    /\ UNCHANGED pracVars /\ UNCHANGED fmtVars /\ UNCHANGED inputVars /\ UNCHANGED deckVars

NextLoad == \E caller \in Callers : CallLoadMacros(caller)
SpecLoad == InitLoad /\ [][NextLoad]_vars

(***************************************************************************)
(* cmd_start of flashcards.py: rounds of questions on the cards of one     *)
(* session, with the rows of session_cards that update_card writes         *)
(***************************************************************************)
Cards == 1..MaxCards
NULL == -1                     \* SQL NULL in the column review_at
RESULT_PASS == "pass"
RESULT_FAIL == "fail"
round_cards == 2               \* the command's limit of cards in a round
HistoryForms == 3              \* len(HISTORY_FORMS)

NoRow == [present |-> FALSE, streak |-> 0, review_at |-> NULL]

RECURSIVE Pow2(_)
Pow2(n) == IF n = 0 THEN 1 ELSE 2 * Pow2(n - 1)

\* the (streak, review_at) that update_card passes to update_session_card
update_card(streak, result_, cnt) ==
    IF result_ = RESULT_PASS
    THEN LET streak1 == IF streak + 1 > 31 THEN 31 ELSE streak + 1
         IN  [streak |-> streak1, review_at |-> cnt + Pow2(streak1)]
    ELSE [streak |-> 0, review_at |-> NULL]

\* INSERT ... ON CONFLICT DO UPDATE SET streak=:streak,
\*                                     review_at=coalesce(:review_at, review_at)
update_session_card(row, u) ==
    IF ~row.present
    THEN [present |-> TRUE, streak |-> u.streak, review_at |-> u.review_at]
    ELSE [present |-> TRUE, streak |-> u.streak,
          review_at |-> IF u.review_at # NULL THEN u.review_at ELSE row.review_at]

\* WHERE review_at IS NULL OR review_at <= :counter
IsDue(row, cnt) == row.present /\ (row.review_at = NULL \/ row.review_at <= cnt)

\* the results get_review_cards can return: ORDER BY review_at ASC (NULL sorts
\* first) LIMIT :limit, rows of equal review_at in any order
get_review_cards(table, cnt, limit) ==
    LET due == { c \in Cards : IsDue(table[c], cnt) }
    IN  { R \in SUBSET due :
            /\ Cardinality(R) = Min(limit, Cardinality(due))
            /\ \A a \in R, b \in due \ R : table[a].review_at <= table[b].review_at }

\* the results get_new_cards can return: cards without a row, LIMIT :limit
get_new_cards(table, limit) ==
    LET new == { c \in Cards : ~table[c].present }
    IN  { N \in SUBSET new : Cardinality(N) = Min(limit, Cardinality(new)) }

InitPractice ==
    /\ NoTokNorm /\ NoLayout /\ s = <<>>
    /\ NoMacroCall /\ NoConcat /\ NoThreads /\ NoBreaks /\ NoLoad /\ NoFormatter /\ NoInput /\ NoDecks
    /\ counter = 0 /\ session_cards = [c \in Cards |-> NoRow]
    /\ round_rows = [c \in Cards |-> NoRow]
    /\ ready = {} /\ current = <<>> /\ done = <<>> /\ history = <<>>
    /\ rounds = 0 /\ revises = 0

\* next_question: ready.pop() of the shuffled list, or no current card
next_question(items) ==
    IF items = {}
    THEN current' = <<>> /\ ready' = {}
    ELSE \E e \in items : current' = e /\ ready' = items \ {e}

\* start_round, at startup and when the user answers 'y' to 'Continue?'
start_round ==
    /\ current = <<>> /\ rounds < MaxRounds
    /\ rounds' = rounds + 1
    /\ counter' = counter + 1
    /\ done' = <<>> /\ history' = <<>>
    /\ round_rows' = session_cards
    /\ \E R \in get_review_cards(session_cards, counter + 1, round_cards) :
       \E N \in get_new_cards(session_cards, round_cards - Cardinality(R)) :
            next_question({ <<c, session_cards[c].streak>> : c \in R }
                            \cup { <<c, 0>> : c \in N })
    /\ UNCHANGED <<session_cards, revises>>
    /\ UNCHANGED s /\ UNCHANGED tokVars /\ UNCHANGED normVars /\ UNCHANGED layVars
    /\ UNCHANGED macVars /\ UNCHANGED concVars /\ UNCHANGED thrVars /\ UNCHANGED brkVars
    /\ UNCHANGED loadVars /\ UNCHANGED fmtVars /\ UNCHANGED inputVars /\ UNCHANGED deckVars

\* on_submit(answer) while a question is shown; result_ is the outcome of the
\* comparison of the answer with the back of the card
on_submit(result_) ==
    /\ current # <<>>
    /\ done' = Append(done, current)
    /\ history' = <<[id |-> current[1], result |-> result_]>>
                    \o SubSeq(history, 1, Min(Len(history), HistoryForms - 1))
    /\ session_cards' = [session_cards EXCEPT ![current[1]] =
            update_session_card(@, update_card(current[2], result_, counter))]
    /\ next_question(ready)
    /\ UNCHANGED <<counter, round_rows, rounds, revises>>
    /\ UNCHANGED s /\ UNCHANGED tokVars /\ UNCHANGED normVars /\ UNCHANGED layVars
    /\ UNCHANGED macVars /\ UNCHANGED concVars /\ UNCHANGED thrVars /\ UNCHANGED brkVars
    /\ UNCHANGED loadVars /\ UNCHANGED fmtVars /\ UNCHANGED inputVars /\ UNCHANGED deckVars

\* the streak on_revise finds in done for a card
done_streak(card_id) ==
    done[CHOOSE k \in 1..Len(done) :
            /\ done[k][1] = card_id
            /\ \A n \in 1..(k - 1) : done[n][1] # card_id][2]

\* toggle_item on the history entry k, then set_selected leaving it:
\* on_revise(history[k].id, result_)
on_revise(k, result_) ==
    /\ k \in 1..Len(history) /\ revises < MaxRevises
    /\ revises' = revises + 1
    /\ history' = [history EXCEPT ![k].result = result_]
    /\ session_cards' = [session_cards EXCEPT ![history[k].id] =
            update_session_card(@,
                update_card(done_streak(history[k].id), result_, counter))]
    /\ UNCHANGED <<counter, round_rows, ready, current, done, rounds>>
    /\ UNCHANGED s /\ UNCHANGED tokVars /\ UNCHANGED normVars /\ UNCHANGED layVars
    /\ UNCHANGED macVars /\ UNCHANGED concVars /\ UNCHANGED thrVars /\ UNCHANGED brkVars
    /\ UNCHANGED loadVars /\ UNCHANGED fmtVars /\ UNCHANGED inputVars /\ UNCHANGED deckVars

NextPractice ==
    \/ start_round
    \/ \E result_ \in {RESULT_PASS, RESULT_FAIL} : on_submit(result_)
    \/ \E k \in 1..HistoryForms, result_ \in {RESULT_PASS, RESULT_FAIL} : on_revise(k, result_)
SpecPractice == InitPractice /\ [][NextPractice]_vars

(***************************************************************************)
(* Formatter.lines of console_ui.py: the lines of a text in a box of cols  *)
(* columns                                                                 *)
(***************************************************************************)
FormatterChars == {"a", " ", "-", CJK, LF, CR}

\* c0 in ('\u000a', '\u000b', '\u000c', '\u0085', '\u2028', '\u2029')
is_line_terminator(c) == c = LF

\* the inner "while line_end < len(self.__text)": the line end and line_break
\* it leaves
RECURSIVE lines_scan(_, _, _, _, _, _, _)
\* variant of the scan that goes back to a break at the start of the line
lines_scan_stale_break(text, cols, mask, start, line_end, break_, line_width) ==
    IF line_end >= Len(text)
    THEN [line_end |-> line_end, line_break |-> break_]
    ELSE LET c0 == text[line_end]
             c1 == text[line_end + 1]
         IN  IF is_line_terminator(c0) \/ (c0 = CR /\ c1 # LF)
             THEN [line_end |-> line_end, line_break |-> break_]
             ELSE LET break1 == IF (line_end - 1) \in mask THEN line_end ELSE break_
                      w      == char_width(c0)
                  IN  IF line_width + w >= cols
                      THEN [line_end   |-> IF break1 >= start THEN break1 ELSE line_end,
                            line_break |-> break1]
                      ELSE lines_scan(text, cols, mask, start, line_end + 1, break1,
                                      line_width + w)

lines_scan(text, cols, mask, start, line_end, break_, line_width) ==
    IF line_end >= Len(text)
    THEN [line_end |-> line_end, line_break |-> break_]
    ELSE LET c0 == text[line_end]
             c1 == text[line_end + 1]
         IN  IF is_line_terminator(c0) \/ (c0 = CR /\ c1 # LF)
             THEN [line_end |-> line_end, line_break |-> break_]
             ELSE LET break1 == IF (line_end - 1) \in mask THEN line_end ELSE break_
                      w      == char_width(c0)
                  IN  IF line_width + w >= cols
                      THEN [line_end   |-> IF break1 > start THEN break1 ELSE line_end,
                            line_break |-> break1]
                      ELSE lines_scan(text, cols, mask, start, line_end + 1, break1,
                                      line_width + w)

\* a Formatter whose text was just assigned (modified), before lines is read
InitFormatter ==
    /\ NoTokNorm /\ NoLayout /\ s = <<>>
    /\ NoMacroCall /\ NoConcat /\ NoThreads /\ NoBreaks /\ NoLoad /\ NoPractice /\ NoInput /\ NoDecks
    /\ formatter_text \in SeqsUpTo(FormatterChars, MaxText)
    /\ formatter_cols \in 1..MaxCols
    /\ formatter_lines = <<>>
    /\ line_start = 0 /\ line_break = 0 /\ fpc = "loop"

\* one iteration of "while line_start < len(self.__text)"
FormatterLine ==
    /\ fpc = "loop" /\ line_start < Len(formatter_text)
    /\ LET r == lines_scan(formatter_text, formatter_cols,
                           line_break_opportunities(formatter_text),
                           line_start, line_start + 1, line_break, 0)
       IN  /\ formatter_lines' = Append(formatter_lines,
                    <<line_start, r.line_end,
                      unicode_width(Slice(formatter_text, line_start, r.line_end))>>)
           /\ line_start' = r.line_end
           /\ line_break' = r.line_break
    /\ UNCHANGED <<formatter_text, formatter_cols, fpc>>
    /\ UNCHANGED s /\ UNCHANGED tokVars /\ UNCHANGED normVars /\ UNCHANGED layVars
    /\ UNCHANGED macVars /\ UNCHANGED concVars /\ UNCHANGED thrVars /\ UNCHANGED brkVars
    /\ UNCHANGED loadVars /\ UNCHANGED pracVars /\ UNCHANGED inputVars /\ UNCHANGED deckVars

\* "return self.__lines"
FormatterReturn ==
    /\ fpc = "loop" /\ line_start >= Len(formatter_text)
    /\ fpc' = "returned"
    /\ UNCHANGED <<formatter_text, formatter_cols, formatter_lines, line_start, line_break>>
    /\ UNCHANGED s /\ UNCHANGED tokVars /\ UNCHANGED normVars /\ UNCHANGED layVars
    /\ UNCHANGED macVars /\ UNCHANGED concVars /\ UNCHANGED thrVars /\ UNCHANGED brkVars
    /\ UNCHANGED loadVars /\ UNCHANGED pracVars /\ UNCHANGED inputVars /\ UNCHANGED deckVars

NextFormatter == FormatterLine \/ FormatterReturn
SpecFormatter == InitFormatter /\ [][NextFormatter]_vars

(***************************************************************************)
(* Input of console_ui.py: the text, the cursor and the keys read by       *)
(* process_char; edit and flip_card of EditorApp assign Input.text.        *)
(***************************************************************************)
ASCII_BACKSPACE == "x08"
ASCII_ESC       == "x1b"
MS_KEY_ESC0     == "x00"
MS_KEY_ESC1     == "xe0"
MS_KEY_UP       == "x48"
MS_KEY_LEFT     == "x4b"
MS_KEY_RIGHT    == "x4d"
MS_KEY_HOME     == "x47"
MS_KEY_END      == "x4f"
TAB             == "x09"

InputChars == {"a", "b"}
PlainKeys  == { <<c>> : c \in InputChars \cup {ASCII_BACKSPACE, ASCII_ESC, TAB, LF, CR} }
EscapedKeys == { <<MS_KEY_ESC0, MS_KEY_LEFT>>, <<MS_KEY_ESC1, MS_KEY_RIGHT>>,
                 <<MS_KEY_ESC0, MS_KEY_HOME>>, <<MS_KEY_ESC1, MS_KEY_END>>,
                 <<MS_KEY_ESC0, MS_KEY_UP>> }
EditTexts  == { <<>>, <<"a">>, <<"b", "a">> }

\* a setter that stores the text and leaves the cursor where it was
text_setter_unclamped(cur, text) == [text |-> text, cursor |-> cur]

\* the setter of Input.text: the cursor is pulled back to the end of a shorter text
text_setter(cur, text) ==
    [text |-> text, cursor |-> IF cur > Len(text) THEN Len(text) ELSE cur]

\* Input.process_char on the characters that getwch hands out
process_char(text, cur, keys) ==
    LET char == keys[1] IN
    IF char \in {ASCII_ESC, TAB, LF} THEN [text |-> text, cursor |-> cur]
    ELSE IF char = CR THEN text_setter(cur, <<>>)
    ELSE IF char = ASCII_BACKSPACE THEN
        IF cur > 0
        THEN text_setter(cur - 1, Slice(text, 0, cur - 1) \o Slice(text, cur, Len(text)))
        ELSE [text |-> text, cursor |-> cur]
    ELSE IF char \in {MS_KEY_ESC0, MS_KEY_ESC1} THEN
        LET char2 == keys[2] IN
        IF char2 = MS_KEY_LEFT
        THEN [text |-> text, cursor |-> IF cur > 0 THEN cur - 1 ELSE cur]
        ELSE IF char2 = MS_KEY_RIGHT
        THEN [text |-> text, cursor |-> IF cur < Len(text) THEN cur + 1 ELSE cur]
        ELSE IF char2 = MS_KEY_HOME THEN [text |-> text, cursor |-> 0]
        ELSE IF char2 = MS_KEY_END THEN [text |-> text, cursor |-> Len(text)]
        ELSE [text |-> text, cursor |-> cur]
    ELSE
        LET set == IF cur < Len(text)
                   THEN text_setter(cur, Slice(text, 0, cur) \o <<char>> \o Slice(text, cur, Len(text)))
                   ELSE text_setter(cur, text \o <<char>>)
        IN  [text |-> set.text, cursor |-> set.cursor + 1]

InitInput ==
    /\ NoTokNorm /\ NoLayout /\ s = <<>>
    /\ NoMacroCall /\ NoConcat /\ NoThreads /\ NoBreaks /\ NoLoad /\ NoPractice /\ NoFormatter /\ NoDecks
    /\ input_text = <<>> /\ cursor = 0 /\ getwch = <<>>
    /\ preview_front = <<>> /\ preview_back = <<>> /\ edit_front = TRUE

\* one call of process_char by get_input
ProcessChar(keys) ==
    /\ keys[1] \in InputChars => Len(input_text) < MaxInput
    /\ LET r == process_char(input_text, cursor, keys)
       IN  input_text' = r.text /\ cursor' = r.cursor
    /\ getwch' = keys
    /\ UNCHANGED <<preview_front, preview_back, edit_front>>
    /\ UNCHANGED s /\ UNCHANGED tokVars /\ UNCHANGED normVars /\ UNCHANGED layVars
    /\ UNCHANGED macVars /\ UNCHANGED concVars /\ UNCHANGED thrVars /\ UNCHANGED brkVars
    /\ UNCHANGED loadVars /\ UNCHANGED pracVars /\ UNCHANGED fmtVars /\ UNCHANGED deckVars

\* EditorApp.edit
edit(front, back) ==
    /\ preview_front' = front /\ preview_back' = back
    /\ edit_front' = TRUE
    /\ LET r == text_setter(cursor, front)
       IN  input_text' = r.text /\ cursor' = r.cursor
    /\ getwch' = <<>>
    /\ UNCHANGED s /\ UNCHANGED tokVars /\ UNCHANGED normVars /\ UNCHANGED layVars
    /\ UNCHANGED macVars /\ UNCHANGED concVars /\ UNCHANGED thrVars /\ UNCHANGED brkVars
    /\ UNCHANGED loadVars /\ UNCHANGED pracVars /\ UNCHANGED fmtVars /\ UNCHANGED deckVars

\* EditorApp.flip_card
flip_card(update_input) ==
    LET front == IF update_input /\ edit_front THEN input_text ELSE preview_front
        back  == IF update_input /\ ~edit_front THEN input_text ELSE preview_back
        r     == text_setter(cursor, IF ~edit_front THEN front ELSE back)
    IN  /\ update_input => Len(input_text) <= MaxPreview
        /\ preview_front' = front /\ preview_back' = back
        /\ edit_front' = ~edit_front
        /\ input_text' = r.text /\ cursor' = r.cursor
        /\ getwch' = <<>>
        /\ UNCHANGED s /\ UNCHANGED tokVars /\ UNCHANGED normVars /\ UNCHANGED layVars
        /\ UNCHANGED macVars /\ UNCHANGED concVars /\ UNCHANGED thrVars /\ UNCHANGED brkVars
        /\ UNCHANGED loadVars /\ UNCHANGED pracVars /\ UNCHANGED fmtVars /\ UNCHANGED deckVars

NextInput ==
    \/ \E keys \in PlainKeys \cup EscapedKeys : ProcessChar(keys)
    \/ \E front \in EditTexts, back \in EditTexts : edit(front, back)
    \/ \E update_input \in BOOLEAN : flip_card(update_input)
SpecInput == InitInput /\ [][NextInput]_vars

(***************************************************************************)
(* update_session_decks of database.py: the tables session_decks and       *)
(* session_cards of two sessions over the cards of two decks.              *)
(***************************************************************************)
SessionIds == {1, 2}
DeckIds    == {1, 2}
CardIds    == {1, 2}
DeckLists  == SeqsUpTo(DeckIds, MaxDeckList)

\* DELETE FROM session_decks WHERE session_id=?
delete_session_decks(decks_table, session_id) ==
    { p \in decks_table : p[1] # session_id }

\* executemany INSERT INTO session_decks under UNIQUE(session_id, deck_id)
add_session_decks(decks_table, session, decks) ==
    IF \/ \E a, b \in 1..Len(decks) : a # b /\ decks[a] = decks[b]
       \/ \E a \in 1..Len(decks) : <<session, decks[a]>> \in decks_table
    THEN [error |-> "IntegrityError", table |-> decks_table]
    ELSE [error |-> "",
          table |-> decks_table \cup { <<session, decks[a]>> : a \in 1..Len(decks) }]

\* a cleanup whose DELETE is not restricted to the session of the call
cleanup_kept_any_session(decks_table, cell, session_id) ==
    <<session_id, card_deck[cell[2]]>> \in decks_table

\* the rows that the DELETE of cleanup_session_cards leaves out: those of another
\* session, and those whose card is in a deck of the row's session
cleanup_kept(decks_table, cell, session_id) ==
    \/ cell[1] # session_id
    \/ <<cell[1], card_deck[cell[2]]>> \in decks_table

cleanup_session_cards(cards_table, decks_table, session_id) ==
    [cell \in SessionIds \X CardIds |->
        IF cleanup_kept(decks_table, cell, session_id) THEN cards_table[cell] ELSE NoRow]

InitDecks ==
    /\ NoTokNorm /\ NoLayout /\ s = <<>>
    /\ NoMacroCall /\ NoConcat /\ NoThreads /\ NoBreaks /\ NoLoad /\ NoPractice /\ NoFormatter
    /\ NoInput
    /\ card_deck \in [CardIds -> DeckIds]
    /\ db_session_decks = {}
    /\ db_session_cards = [cell \in SessionIds \X CardIds |-> NoRow]
    /\ db_call = <<>> /\ studies = 0

\* update_session_decks inside "with db as cur": an exception rolls the
\* transaction back
update_session_decks(session_id, deck_ids) ==
    LET deleted == delete_session_decks(db_session_decks, session_id)
        added   == add_session_decks(deleted, session_id, deck_ids)
        cleaned == cleanup_session_cards(db_session_cards, added.table, session_id)
    IN  /\ IF added.error # ""
           THEN /\ UNCHANGED <<db_session_decks, db_session_cards>>
                /\ db_call' = [op |-> "update_session_decks", session |-> session_id,
                               decks |-> deck_ids, error |-> added.error, rowcount |-> 0]
           ELSE /\ db_session_decks' = added.table
                /\ db_session_cards' = cleaned
                /\ db_call' = [op |-> "update_session_decks", session |-> session_id,
                               decks |-> deck_ids, error |-> "",
                               rowcount |-> Cardinality({ cell \in SessionIds \X CardIds :
                                    db_session_cards[cell].present /\ ~cleaned[cell].present })]
        /\ UNCHANGED <<card_deck, studies>>
        /\ UNCHANGED s /\ UNCHANGED tokVars /\ UNCHANGED normVars /\ UNCHANGED layVars
        /\ UNCHANGED macVars /\ UNCHANGED concVars /\ UNCHANGED thrVars /\ UNCHANGED brkVars
        /\ UNCHANGED loadVars /\ UNCHANGED pracVars /\ UNCHANGED fmtVars /\ UNCHANGED inputVars

\* an answer to a card that get_new_cards or get_review_cards has handed out:
\* update_session_card on the row of the session and the card
StudyCard(session, card, result_) ==
    /\ studies < MaxStudies
    /\ <<session, card_deck[card]>> \in db_session_decks
    /\ LET row == db_session_cards[<<session, card>>]
       IN  db_session_cards' = [db_session_cards EXCEPT ![<<session, card>>] =
                update_session_card(row, update_card(row.streak, result_, 1))]
    /\ studies' = studies + 1
    /\ db_call' = [op |-> "update_session_card", session |-> session,
                   decks |-> <<>>, error |-> "", rowcount |-> 1]
    /\ UNCHANGED <<card_deck, db_session_decks>>
    /\ UNCHANGED s /\ UNCHANGED tokVars /\ UNCHANGED normVars /\ UNCHANGED layVars
    /\ UNCHANGED macVars /\ UNCHANGED concVars /\ UNCHANGED thrVars /\ UNCHANGED brkVars
    /\ UNCHANGED loadVars /\ UNCHANGED pracVars /\ UNCHANGED fmtVars /\ UNCHANGED inputVars

NextDecks ==
    \/ \E session_id \in SessionIds, deck_ids \in DeckLists :
          update_session_decks(session_id, deck_ids)
    \/ \E session \in SessionIds, card \in CardIds, result_ \in {RESULT_PASS, RESULT_FAIL} :
          StudyCard(session, card, result_)
SpecDecks == InitDecks /\ [][NextDecks]_vars

(***************************************************************************)
(* Tokenizer claims                                                        *)
(***************************************************************************)
\* ranges of a token list tile [0, n) as half-open intervals and carry the text
TilesHalfOpen(str, toks) ==
    /\ toks # <<>> => toks[1].range[1] = 0 /\ toks[Len(toks)].range[2] = Len(str)
    /\ toks = <<>> => Len(str) = 0
    /\ \A k \in 1..Len(toks) :
          /\ toks[k].range[1] < toks[k].range[2]
          /\ toks[k].value # <<>>
          /\ toks[k].value = Slice(str, toks[k].range[1], toks[k].range[2])
    /\ \A k \in 1..(Len(toks) - 1) : toks[k + 1].range[1] = toks[k].range[2]

\* C4: when tokenize(s) is exhausted, the (start, end) ranges of the yielded
\* tokens tile [0, len(s)) as half-open intervals: first start 0, each next
\* start equal to the previous end, last end len(s), no empty token, and each
\* token's text equal to s[start:end].
C4_RangesTileHalfOpen == tpc = "done" => TilesHalfOpen(s, yielded)

(***************************************************************************)
(* Normalizer claims                                                       *)
(***************************************************************************)
PrecededByValueLike(toks, type_) ==
    \A k \in 1..Len(toks) :
        toks[k].type = type_ /\ k > 1 => toks[k - 1].type \in VALUE_LIKE

\* C5: in the sequence emitted by normalize every INFIX token is immediately
\* preceded by a value-like token (it is never the first token, and the
\* synthetic empty literal stands directly before the infix when the raw
\* stream has no value-like token there).
C5_InfixPrecededByValue ==
    npc = "done" =>
        \A k \in 1..Len(normalized) :
            normalized[k].type = INFIX =>
                k > 1 /\ normalized[k - 1].type \in VALUE_LIKE

\* C6: in the sequence emitted by normalize every RBRACKET token that is not
\* the first emitted token is immediately preceded by a value-like token.
C6_RBracketPrecededByValue ==
    npc = "done" => PrecededByValueLike(normalized, RBRACKET)

\* C6 witness: "{}" was normalized to '{', empty literal, '}'
C6_Witness ==
    /\ npc = "done"
    /\ s = <<"{", "}">>
    /\ Len(normalized) = 3
    /\ normalized[1].type = LBRACKET
    /\ normalized[2] = Token(LITERAL, None, <<>>)
    /\ normalized[3].type = RBRACKET

(***************************************************************************)
(* Layout claims                                                           *)
(***************************************************************************)
\* the token stream the running call was given
Stream == normalize(tokenize(s), MacroLookup)
Ended  == lpc \in {"returned", "raised"}

\* C1: layout never raises: every call on a stream normalize(tokenize(s))
\* ends by returning (quirks, TextGroup), also when a function or macro call
\* is still parked at a '}' or at the end of the input.
C1_LayoutNeverRaises == lpc # "raised"

\* C2: the outcome of a layout call on (source, max_width) is the outcome of
\* the same call on a thread that made no call before: same quirks and same
\* group, whatever calls (also calls that ended abnormally) preceded it.
C2_SameAsFirstCall ==
    Ended =>
        LET fresh == layout(Stream, max_width, NoTls, NoTls)
        IN  IF lpc = "returned"
            THEN fresh.err = "" /\ fresh.quirks = quirks /\ fresh.result = result
            ELSE fresh.err = error

\* standard nearest-bracket matching over a token stream: the ranges of the
\* '{' tokens without a matching '}' (left) and of the '}' without '{' (right)
RECURSIVE match_brackets(_, _, _)
match_brackets(tokens_, open, right) ==
    IF tokens_ = <<>> THEN [left |-> open, right |-> right]
    ELSE LET token == Head(tokens_)
         IN  IF token.type = LBRACKET
             THEN match_brackets(Tail(tokens_), Append(open, token.range), right)
             ELSE IF token.type = RBRACKET
             THEN IF open = <<>>
                  THEN match_brackets(Tail(tokens_), open, Append(right, token.range))
                  ELSE match_brackets(Tail(tokens_), Front(open), right)
             ELSE match_brackets(Tail(tokens_), open, right)

RangesOf(seq) == { seq[k] : k \in 1..Len(seq) }
QuirkRanges(qs, msg) ==
    LET idx == { k \in 1..Len(qs) : qs[k].msg = msg }
    IN  [n |-> Cardinality(idx), ranges |-> { qs[k].range : k \in idx }]

BraceQuirksMatch(qs) ==
    LET m  == match_brackets(Stream, <<>>, <<>>)
        ql == QuirkRanges(qs, "unmatched left brace")
        qr == QuirkRanges(qs, "unmatched right brace")
    IN  /\ ql.n = Len(m.left)  /\ ql.ranges = RangesOf(m.left)
        /\ qr.n = Len(m.right) /\ qr.ranges = RangesOf(m.right)

\* C3: for a stream with N unmatched '{' and M unmatched '}', the call emits
\* exactly N "unmatched left brace" quirks, one per such '{' and carrying its
\* range, and exactly M "unmatched right brace" quirks likewise.  A call that
\* raises emits no quirk at all.
C3_BraceQuirksCounted ==
    Ended => BraceQuirksMatch(IF lpc = "returned" THEN quirks ELSE <<>>)

\* the same count, for the calls that return
C3_BraceQuirksCountedOnReturn ==
    lpc = "returned" => BraceQuirksMatch(quirks)

\* the source is x sym y for two non-empty single-literal operands
IsStack(sym) ==
    LET tk == Stream
    IN  /\ Len(tk) = 3
        /\ tk[1].type = LITERAL /\ tk[1].value # <<>>
        /\ tk[2].type = INFIX   /\ tk[2].value = sym
        /\ tk[3].type = LITERAL /\ tk[3].value # <<>>

\* layout stacks lines downwards: stack_lines gives a later line the row
\* y - 1 of the line before it, so "a is in the row directly above b" is
Above(a, b) == a.y = b.y + 1

StackShape(g) ==
    LET tk == Stream
    IN  /\ g.box.height = 2
        /\ g.box.width = Max(unicode_width(tk[1].value), unicode_width(tk[3].value))
        /\ Len(g.items) = 2
        /\ g.items[1].text = tk[1].value
        /\ g.items[2].text = tk[3].value

\* C7 (as claimed): for x^y the call returns zero quirks and a group of height
\* 2 and width max(width(x), width(y)) with the left operand x in the row
\* directly above the right operand y.
C7_LeftOperandAbove ==
    Ended /\ IsStack(<<"^">>) =>
        /\ lpc = "returned" /\ quirks = <<>>
        /\ StackShape(result)
        /\ Above(result.items[1], result.items[2])

\* C7 (amended): for x^y the call returns zero quirks and a group of height 2
\* and width max(width(x), width(y)) with the RIGHT operand y in the row
\* directly above the left operand x.
C7_RightOperandAbove ==
    Ended /\ IsStack(<<"^">>) =>
        /\ lpc = "returned" /\ quirks = <<>>
        /\ StackShape(result)
        /\ Above(result.items[2], result.items[1])

\* C7 witness: "xxx^x" was laid out
C7_Witness ==
    /\ lpc = "returned"
    /\ s = <<"x", "x", "x", "^", "x">>
    /\ result.box.height = 2

Centred(g) ==
    LET tk == Stream
        w  == Max(unicode_width(tk[1].value), unicode_width(tk[3].value))
    IN  /\ g.items[1].x = (w - unicode_width(tk[1].value)) \div 2
        /\ g.items[2].x = (w - unicode_width(tk[3].value)) \div 2

\* C8 (as claimed): for x_y the call returns zero quirks and a group of height
\* 2 and width max(width(x), width(y)) with y in the row directly below x, the
\* narrower operand centred over the wider, and the baseline of the returned
\* group on x's row.
C8_BaselineOnLeftRow ==
    Ended /\ IsStack(<<"_">>) =>
        /\ lpc = "returned" /\ quirks = <<>>
        /\ StackShape(result)
        /\ Above(result.items[1], result.items[2])
        /\ Centred(result)
        /\ result.box.baseline = result.items[1].y

\* C8 (amended): for x_y the call returns zero quirks and a group of height 2
\* and width max(width(x), width(y)) with y in the row directly below x and the
\* narrower operand centred over the wider; the baseline is on x's row in the
\* group the '_' operator leaves on the output stack, and is the height (2) in
\* the group the call returns.
C8_RightOperandBelow ==
    /\ Ended /\ IsStack(<<"_">>) =>
        /\ lpc = "returned" /\ quirks = <<>>
        /\ StackShape(result)
        /\ Above(result.items[1], result.items[2])
        /\ Centred(result)
        /\ result.box.baseline = 2
    /\ lpc = "unwind" /\ operators = <<>> /\ IsStack(<<"_">>) =>
        /\ Len(output) = 1
        /\ StackShape(output[1])
        /\ output[1].box.baseline = output[1].items[1].y

\* C8 witness: "x_xxxx" was laid out (operands of widths 1 and 4)
C8_Witness ==
    /\ lpc = "returned"
    /\ s = <<"x", "_", "x", "x", "x", "x">>
    /\ result.box.width = 4

\* the colour in force below the top of a colour stack: the colour of the
\* nearest enclosing call that has one, the default colour at the bottom
RECURSIVE ActiveColour(_)
ActiveColour(stack) ==
    IF stack = <<>> THEN None
    ELSE IF Last(stack) # None THEN Last(stack)
    ELSE ActiveColour(Front(stack))

Escapes == { FG_COLORS[n].color : n \in 1..Len(FG_COLORS) } \cup { ANSI_DEFAULT }

\* C9: every completed fgcolor call returns the resolved colour escape, then
\* the items of its argument unchanged, then the escape of the colour that was
\* active when the call was opened (a string, the default colour when no
\* enclosing call has a colour); "\fgcolor{Red}{x}" gives [red, "x", default]
\* and no quirk.
C9_FgcolorWraps ==
    /\ \A k \in 1..Len(fg_log) :
        LET c == fg_log[k]
        IN  c.result # NoGroup =>
                /\ Last(c.before) \in Escapes
                /\ Last(c.result.items).text # None
                /\ c.result.items =
                        <<Text_from_str(Last(c.before))>> \o c.arg.items
                            \o <<Text_from_str(ActiveColour(Front(c.before)))>>
    /\ Ended /\ s = <<"\\">> \o fgcolor_ident \o <<"{", "R", "e", "d", "}", "{", "x", "}">> =>
        /\ lpc = "returned" /\ quirks = <<>>
        /\ result.items = <<Text_from_str(ANSI_RED), Text_from_str(<<"x">>),
                            Text_from_str(ANSI_DEFAULT)>>

NoColourName(items) ==
    \A k \in 1..Len(items) :
        items[k].text = None \/ lower(strip(items[k].text)) \notin FG_KEYS

\* the invocation that delivers the next argument to the call left open by
\* invocation k: the first later one made at the same stack height
NextArgOf(k) ==
    { n \in (k + 1)..Len(fg_log) :
        /\ fg_log[n].arg # NoGroup
        /\ Len(fg_log[n].before) = Len(fg_log[k].before)
        /\ \A q \in (k + 1)..(n - 1) : Len(fg_log[q].before) >= Len(fg_log[k].before)
        /\ \A q \in (k + 1)..(n - 1) :
              Len(fg_log[q].before) = Len(fg_log[k].before) => fg_log[q].arg = NoGroup }

\* C10: when no item of the first argument names a colour, exactly one quirk
\* "failed to get color" is recorded at the function token's range, the call
\* takes the default colour and stays open, and its next argument is wrapped
\* between the default escape and the enclosing colour.
C10_UnresolvedColour ==
    \A k \in 1..Len(fg_log) :
        LET c == fg_log[k]
        IN  (c.arg # NoGroup /\ c.before # <<>> /\ Last(c.before) = None
                /\ NoColourName(c.arg.items)) =>
                /\ c.err = ""
                /\ c.recorded = <<Quirk("failed to get color", c.range)>>
                /\ c.result = NoGroup
                /\ c.after = Append(Front(c.before), ANSI_DEFAULT)
                /\ \A n \in NextArgOf(k) :
                      /\ fg_log[n].err = ""
                      /\ fg_log[n].result # NoGroup
                      /\ fg_log[n].result.items =
                            <<Text_from_str(ANSI_DEFAULT)>> \o fg_log[n].arg.items
                                \o <<Text_from_str(Last(Front(fg_log[n].before)))>>

(***************************************************************************)
(* Wrapping                                                                *)
(***************************************************************************)
\* the source is words: literals without breaking space, separated by runs of
\* breaking spaces, no bracket, operator or escape
IsWords ==
    LET tk == Stream
    IN  /\ Len(tk) >= 1
        /\ \A k \in 1..Len(tk) :
              IF k % 2 = 1
              THEN /\ tk[k].type = LITERAL /\ tk[k].value # <<>>
                   /\ \A p \in 1..Len(tk[k].value) :
                         /\ ~is_breaking_space(tk[k].value[p])
                         /\ tk[k].value[p] \notin {"\\", "{", "}", "^", "_", "#"}
              ELSE tk[k].type = SPACE /\ tk[k].value # <<>>
        /\ Len(tk) % 2 = 1

\* the lines (rows) of a group and the width each one takes
RowsOf(g) == { g.items[k].y : k \in 1..Len(g.items) }
RowItems(g, y) == { k \in 1..Len(g.items) : g.items[k].y = y }
RowWidth(g, y) ==
    LET ends == { g.items[k].x + unicode_width(g.items[k].text) : k \in RowItems(g, y) }
    IN  CHOOSE m \in ends : \A n \in ends : n <= m

\* C11: for a source of literals separated by breaking spaces and max_width >= 1
\* the call returns, and every line of the returned group has width <= max_width
\* unless the line is one single literal that is itself wider than max_width;
\* "x x x" with a max_width smaller than the full line gives at least 2 lines.
C11_LinesFitMaxWidth ==
    Ended /\ IsWords /\ max_width >= 1 =>
        /\ lpc = "returned"
        /\ \A y \in RowsOf(result) :
              \/ RowWidth(result, y) <= max_width
              \/ /\ Cardinality(RowItems(result, y)) = 1
                 /\ \E k \in 1..Len(Stream) : Stream[k].type = LITERAL
                        /\ \A n \in RowItems(result, y) : result.items[n].text = Stream[k].value
        /\ (s = <<"x", " ", "x", " ", "x">> /\ max_width < 5 => result.box.height >= 2)

(***************************************************************************)
(* Macros                                                                  *)
(***************************************************************************)
NameCall == <<"\\", "n", "a", "m", "e", "{", "x", "}">>
Bracketed == <<"[", "x", "]">>

\* C12: with the macro name := "[#1]" registered, "\name{x}" completes
\* normally and returns the same TextGroup and the same quirks as "[x]".
C12_NameCallLikeBrackets ==
    s = NameCall /\ Ended =>
        /\ lpc = "returned"
        /\ result = layout(normalize(tokenize(Bracketed), MacroLookup),
                           max_width, NoTls, NoTls).result
        /\ quirks = layout(normalize(tokenize(Bracketed), MacroLookup),
                           max_width, NoTls, NoTls).quirks

\* the 0-based indexes of the placeholder tokens ("#" and a 1-based number) of a body
PlaceholderIndexes(body) ==
    { match_group(body[k]) : k \in 1..Len(body) } \ {-1}

Arity(body) ==
    IF PlaceholderIndexes(body) = {} THEN 0
    ELSE 1 + (CHOOSE m \in PlaceholderIndexes(body) :
                    \A n \in PlaceholderIndexes(body) : n <= m)

\* C13: a created macro has arity 1 + its largest 0-based placeholder index, and
\* 0 without placeholder; a body whose only placeholder is #1 gives 1, one with
\* #1 and #3 gives 3; every placeholder index of the body is below the arity.
C13_ArityCoversPlaceholders ==
    mpc \in {"created", "raised"} =>
        /\ macro_obj.argn = Arity(macro_obj.tokens)
        /\ \A n \in PlaceholderIndexes(macro_obj.tokens) : n < macro_obj.argn
        /\ (macro_def = <<"[", "#", "1", "]">> => macro_obj.argn = 1)
        /\ (macro_def = <<"#", "1", " ", "a", "n", "d", " ", "#", "3">> => macro_obj.argn = 3)

(***************************************************************************)
(* The empty group                                                         *)
(***************************************************************************)
\* C14: for every A with 0 <= baseline <= height, A.concat(empty) and
\* empty.concat(A) with default offsets equal A: same box (width, height,
\* baseline) and the same items at the same positions.
C14_EmptyIsNeutral ==
    /\ (with_empty # NoGroup => with_empty = operand)
    /\ (onto_empty # NoGroup => onto_empty = operand)

\* both concatenations are done for a group with items, height above its
\* baseline and a baseline above 0
C14_Witness ==
    /\ with_empty # NoGroup /\ onto_empty # NoGroup
    /\ operand.items # <<>>
    /\ 0 < operand.box.baseline /\ operand.box.baseline < operand.box.height

(***************************************************************************)
(* Concurrent evaluations                                                  *)
(***************************************************************************)
\* the same call made alone on a fresh thread, and its frame after the first n
\* tokens
Alone(t) == layout(normalize(tokenize(th_src[t]), MacroLookup),
                   th_frame[t].max_width, NoTls, NoTls)
AloneAfter(t, n) ==
    layout_input(NewFrame(th_frame[t].max_width, NoTls, NoTls),
                 SubSeq(normalize(tokenize(th_src[t]), MacroLookup), 1, n))
Consumed(t) == Len(normalize(tokenize(th_src[t]), MacroLookup)) - Len(th_tokens[t])

SameOutcome(t, alone) ==
    /\ (th_pc[t] = "raised" => alone.err = th_frame[t].err)
    /\ (th_pc[t] = "returned" =>
            alone.err = "" /\ th_out[t].result = alone.result
                           /\ th_out[t].quirks = alone.quirks)

\* C15: two layout evaluations running in two threads, with fgcolor and macro
\* calls in progress, end as each does alone on a fresh thread under every
\* interleaving of their steps, and while a thread consumes its tokens its
\* frame and its pending-call state (the thread's view of both stores) are
\* those of the evaluation made alone: no thread sees or changes the pending
\* calls of the other.
C15_ThreadsIsolated ==
    \A t \in Threads :
        /\ SameOutcome(t, Alone(t))
        /\ (th_pc[t] = "input" => ThreadFrame(t) = AloneAfter(t, Consumed(t)))

\* both threads are in the middle of their token loops, each with an
\* fgcolor call pending in its own store, one of them with a macro call too
C15_Witness ==
    /\ th_pc[1] = "input" /\ th_pc[2] = "input"
    /\ Consumed(1) > 0 /\ Consumed(2) > 0
    /\ Len(fgcolor_local[1].state) > 1 /\ Len(fgcolor_local[2].state) > 1
    /\ macro_local[2].state # <<>>

(***************************************************************************)
(* Termination                                                             *)
(***************************************************************************)
\* the FUNCTION and MACRO tokens of the body of the n-th created macro name a
\* function, or a macro created before it
InvokesEarlier(n) ==
    \A k \in 1..Len(Macro_created(n).tokens) :
        /\ Macro_created(n).tokens[k].type = MACRO =>
                Macro_created(n).tokens[k].value \in MacroIdents(n - 1)
        /\ Macro_created(n).tokens[k].type = FUNCTION =>
                Macro_created(n).tokens[k].value \in FunctionLookup

\* C16: with macros created under pairwise distinct identifiers a layout call
\* ends: every iteration of the token loop consumes one token of the finite
\* stream, once the input is exhausted the unwinding loop (which parks a
\* waiting function again) and the return statement lead to the end of the
\* call (it returns or raises), and every macro body invokes only functions
\* and macros registered before the macro was created.
C16_LayoutTerminates ==
    /\ (lpc = "unwind") ~> Ended
    /\ [][lpc = "input" => Len(tokens') < Len(tokens)]_vars
    /\ [](\A n \in 1..Len(MacroStore) : InvokesEarlier(n))

\* a call has returned after expanding the macro k, whose body calls the macro
\* m, and after its unwinding loop has evaluated a parked fgcolor twice
C16_Witness ==
    /\ lpc = "returned"
    /\ s = <<"\\", "k", "\\">> \o fgcolor_ident
    /\ Cardinality({ n \in 1..Len(quirks) :
                        quirks[n].msg = "missing argument for function" }) = 2

(***************************************************************************)
(* Missing operands                                                        *)
(***************************************************************************)
\* the unwinding loop is about to evaluate an infix operator or a space with
\* fewer than two values on the output stack
EvaluatesShort ==
    /\ lpc = "unwind" /\ operators # <<>>
    /\ Last(operators).type \in {INFIX, SPACE}
    /\ Len(output) < 2

\* the operands evaluate takes from an output stack of fewer than two values:
\* the value (if any) is the right operand, what is missing is the empty group
ShortRhs == IF output = <<>> THEN TextGroup_empty ELSE Last(output)

\* the texts of the items of a stack of groups, in order
Texts(groups) == Flatten([k \in 1..Len(groups) |->
                    [n \in 1..Len(groups[k].items) |-> groups[k].items[n].text]])

\* C17: when layout evaluates an infix operator or a space with fewer than two
\* values on the output stack, it appends the quirk "missing operand" for that
\* token and takes the empty group for every missing operand, for a space as
\* for '^' and '_'.
C17_MissingOperandQuirk ==
    [][EvaluatesShort =>
            /\ quirks' = Append(quirks, Quirk("missing operand", Last(operators).range))
            /\ Last(operators).type = INFIX =>
                    output' = <<infix_evaluate(Last(operators).value,
                                               TextGroup_empty, ShortRhs)>>
            /\ Last(operators).type = SPACE =>
                    Texts(output') = <<Last(operators).value>> \o Texts(<<ShortRhs>>)
      ]_vars

(***************************************************************************)
(* Empty output                                                            *)
(***************************************************************************)
HasEmptyOutputQuirk == \E k \in 1..Len(quirks) : quirks[k] = Quirk("empty output", None)

\* C18: a call that returns has appended the quirk "empty output" if and only
\* if its output stack was empty after the operators were unwound, and then
\* the returned group is the empty group (width 0, height 0, no items).
C18_EmptyOutputQuirk ==
    lpc = "returned" =>
        /\ HasEmptyOutputQuirk <=> output = <<>>
        /\ output = <<>> =>
                /\ result.box.width = 0 /\ result.box.height = 0
                /\ result.items = <<>>

\* a call on a non-empty source has returned with an empty output stack and
\* a quirk reported before the emptiness check
C18_Witness ==
    /\ lpc = "returned" /\ output = <<>> /\ s # <<>>
    /\ Len(quirks) >= 2

(***************************************************************************)
(* Registry lookups                                                        *)
(***************************************************************************)
\* a FUNCTION, MACRO or INFIX token names a key of its registry
Registered(token) ==
    /\ token.type = FUNCTION => token.value \in FunctionLookup
    /\ token.type = MACRO => token.value \in MacroLookup
    /\ token.type = INFIX => token.value \in InfixLookup

\* the tokens of a macro body (the other elements are parameter slots)
BodyTokens(n) == Macro_objects[n].tokens

\* C19: every FUNCTION, MACRO and INFIX token layout dispatches on, from
\* normalize or re-emitted from a macro body, names an identifier of the
\* corresponding registry, so no registry lookup inside layout fails: the
\* pending stream, the operator stack and every stored macro body hold
\* registered names only, and no call ends in a KeyError.
C19_LookupsNeverFail ==
    /\ \A k \in 1..Len(tokens) : Registered(tokens[k])
    /\ \A k \in 1..Len(operators) : Registered(operators[k])
    /\ \A n \in 1..Len(MacroStore) :
            \A k \in 1..Len(BodyTokens(n)) : Registered(BodyTokens(n)[k])
    /\ error # "KeyError"

\* the call of macro k has returned the text of the call of macro m that its
\* body re-emitted, and a function call of the same source was dispatched
C19_Witness ==
    /\ lpc = "returned" /\ error = ""
    /\ s = <<"\\", "k", "\\">> \o fgcolor_ident
    /\ \E n \in 1..Len(BodyTokens(Macro_index(<<"k">>))) :
            /\ BodyTokens(Macro_index(<<"k">>))[n].type = MACRO
            /\ BodyTokens(Macro_index(<<"k">>))[n].value = <<"m">>
    /\ output # <<>> /\ Texts(<<Head(output)>>) = << <<"x">> >>
    /\ fg_log # <<>>

(***************************************************************************)
(* Line break opportunities                                                *)
(***************************************************************************)
IsCjkOrKana(c) == is_cjk_ideogram(c) \/ is_kana(c)

\* the character at 0-based index p of the string, and whether one follows it
CharAt(p) == s[p + 1]
HasNext(p) == p + 1 < Len(s)

\* the condition the contract states for a break after index p
BreakPermitted(p) ==
    /\ \/ is_breaking_space(CharAt(p))
       \/ is_breaking_hyphen(CharAt(p))
       \/ IsCjkOrKana(CharAt(p))
       \/ HasNext(p) /\ IsCjkOrKana(CharAt(p + 1))
    /\ ~is_inner_punctuation(CharAt(p))
    /\ ~is_starting_punctuation(CharAt(p))
    /\ HasNext(p) =>
            /\ ~is_inner_punctuation(CharAt(p + 1))
            /\ ~is_ending_punctuation(CharAt(p + 1))
            /\ category(CharAt(p + 1)) # "Sk"

\* C20: line_break_opportunities(s) permits a break after index i if and only
\* if s[i] is a breaking space or a breaking hyphen or s[i] or s[i+1] is a CJK
\* ideograph or kana, s[i] is neither inner nor starting punctuation, and
\* s[i+1] is neither inner punctuation, ending punctuation nor a spacing
\* modifier; a no-break space or a non-breaking hyphen creates no opportunity:
\* a break after one of them is the break before a following ideograph or kana.
C20_BreakOpportunities ==
    bpc = "returned" =>
        /\ maybe_break_after \subseteq Positions(s)
        /\ \A p \in Positions(s) : p \in maybe_break_after <=> BreakPermitted(p)
        /\ \A p \in maybe_break_after :
                CharAt(p) \in {NBSP, NBHY} => HasNext(p) /\ IsCjkOrKana(CharAt(p + 1))

\* the function has returned for a no-break space, an ideograph and the
\* katakana middle dot: the only break is the one before the ideograph
C20_Witness ==
    /\ bpc = "returned"
    /\ s = <<NBSP, CJK, KDOT>>
    /\ maybe_break_after = {0}

(***************************************************************************)
(* Hard delimiters                                                         *)
(***************************************************************************)
HardDelims == {"\\", "{", "}", "^", "_"}

\* the character at 0-based index p of the source is a yielded token of its own
OwnToken(p) ==
    \E k \in 1..Len(yielded) :
        /\ yielded[k].range[1] = p
        /\ yielded[k].value = <<s[p + 1]>>

\* C21: when tokenize(s) is exhausted, every occurrence of '\', '{', '}', '^'
\* and '_' in s has been yielded as a single-character token of its own,
\* whatever characters precede or follow it.
C21_DelimsAreOwnTokens ==
    tpc = "done" =>
        \A p \in Positions(s) : s[p + 1] \in HardDelims => OwnToken(p)

(***************************************************************************)
(* Escaped tokens                                                          *)
(***************************************************************************)
\* the raw tokens normalize was given
Raw == tokenize(s)

\* raw token k is taken as an escape: it is '\' and does not itself follow one
RECURSIVE IsEscapeRaw(_, _)
IsEscapeRaw(raw, k) ==
    /\ raw[k].value = <<"\\">>
    /\ k = 1 \/ ~IsEscapeRaw(raw, k - 1)

FollowsEscape(raw, k) == k > 1 /\ IsEscapeRaw(raw, k - 1)

\* the type the contract gives to a token with this text after an escape
EscapedType(value) ==
    IF value \in FunctionLookup THEN FUNCTION
    ELSE IF value \in MacroLookup THEN MACRO
    ELSE LITERAL

\* C22: the raw token that directly follows an escape token is emitted by
\* normalize with unchanged text and range as FUNCTION if its text is a
\* registered function identifier, as MACRO if it is a registered macro
\* identifier and as LITERAL otherwise, also when the text is '\', '{', '}',
\* '^', '_' or a space; the escape token itself is emitted only when nothing
\* follows it.
C22_EscapedTokenType ==
    npc = "done" =>
        \A k \in 1..Len(Raw) :
            /\ FollowsEscape(Raw, k) =>
                    \E n \in 1..Len(normalized) :
                        normalized[n] = with_type(Raw[k], EscapedType(Raw[k].value))
            /\ IsEscapeRaw(Raw, k) /\ k < Len(Raw) =>
                    \A n \in 1..Len(normalized) : normalized[n].range # Raw[k].range

\* "\^a" was normalized: the escaped '^' is a literal, followed by the
\* synthetic space and the literal 'a'
C22_Witness ==
    /\ npc = "done"
    /\ s = <<"\\", "^", "a">>
    /\ Len(normalized) = 3
    /\ normalized[1].type = LITERAL /\ normalized[1].value = <<"^">>
    /\ normalized[2].type = SPACE
    /\ normalized[3].value = <<"a">>

(***************************************************************************)
(* Runs of breaking spaces                                                 *)
(***************************************************************************)
\* s[a:b] is a maximal run of breaking-space characters that no '\' precedes
SpaceRun(a, b) ==
    /\ a < b
    /\ \A p \in a..(b - 1) : is_breaking_space(s[p + 1])
    /\ a > 0 => ~is_breaking_space(s[a]) /\ s[a] # "\\"
    /\ b < Len(s) => ~is_breaking_space(s[b + 1])

\* emitted token n carries the run s[a:b] with the type the contract gives it
EmitsRun(n, a, b) ==
    /\ normalized[n].range # None
    /\ normalized[n].range[1] = a
    /\ normalized[n].value = Slice(s, a, b)
    /\ normalized[n].type =
            IF n > 1 /\ normalized[n - 1].type \in VALUE_LIKE THEN SPACE ELSE LITERAL

\* C23: normalize emits every maximal run of consecutive breaking-space
\* characters of the source as exactly one token whose text is the whole run,
\* a SPACE token when the token emitted just before it is value-like and a
\* LITERAL token otherwise; no other emitted token starts inside the run.
C23_SpaceRunIsOneToken ==
    npc = "done" =>
        \A a \in 0..Len(s), b \in 0..Len(s) :
            SpaceRun(a, b) =>
                /\ \E n \in 1..Len(normalized) : EmitsRun(n, a, b)
                /\ \A n \in 1..Len(normalized) :
                        normalized[n].range # None =>
                            ~(a < normalized[n].range[1] /\ normalized[n].range[1] < b)

(***************************************************************************)
(* End of the normalized stream                                            *)
(***************************************************************************)
\* the pending token at the end of the raw stream ends with the last raw token
PendingIsLastRaw == t0 # NoToken /\ t0.range[2] = Last(Raw).range[2]

\* C24: for every non-empty raw stream the last token normalize emits is
\* value-like: a pending value-like token is emitted last, and a pending
\* infix, '{', space or escape token is emitted and followed by a synthetic
\* empty literal; for the empty stream normalize emits nothing.
C24_EndsValueLike ==
    npc = "done" =>
        /\ Raw = <<>> => normalized = <<>>
        /\ Raw # <<>> =>
            /\ PendingIsLastRaw
            /\ normalized # <<>> /\ Last(normalized).type \in VALUE_LIKE
            /\ t0.type \in VALUE_LIKE => Last(normalized) = t0
            /\ t0.type \in {INFIX, LBRACKET, SPACE, ESCAPE} =>
                    /\ Len(normalized) >= 2
                    /\ normalized[Len(normalized) - 1] = t0
                    /\ Last(normalized) = Token(LITERAL, None, <<>>)
            /\ t0.type \in VALUE_LIKE \cup {INFIX, LBRACKET, SPACE, ESCAPE}

\* "a^" was normalized: the infix is followed by the synthetic empty literal
C24_Witness ==
    /\ npc = "done"
    /\ s = <<"a", "^">>
    /\ t0.type = INFIX
    /\ Len(normalized) = 3
    /\ normalized[2] = t0
    /\ normalized[3] = Token(LITERAL, None, <<>>)

(***************************************************************************)
(* Precedence and associativity                                            *)
(***************************************************************************)
OperandX == TextGroup_from_str(<<"x">>)
OperandY == TextGroup_from_str(<<"y">>)
OperandZ == TextGroup_from_str(<<"z">>)

\* lhs, the space and rhs in one group, as a space that does not wrap gives
Joined(lhs, rhs) ==
    concat_default(concat_default(lhs, TextGroup_from_str(<<" ">>)), rhs)

Source(o1, o2) == <<"x">> \o o1 \o <<"y">> \o o2 \o <<"z">>

\* the infix tokens on top of the operator stack are those above position k
InfixAbove(k) ==
    /\ \A n \in (k + 1)..Len(operators) : operators[n].type = INFIX
    /\ k > 0 => operators[k].type # INFIX

SpaceJoined(token) ==
    LET n   == Len(output)
        rhs == IF n >= 1 THEN output[n] ELSE TextGroup_empty
        lhs == IF n >= 2 THEN output[n - 1] ELSE TextGroup_empty
        out == IF n >= 2 THEN SubSeq(output, 1, n - 2) ELSE <<>>
    IN  Append(out, concat_default(concat_default(lhs, TextGroup_from_str(token.value)),
                                   rhs))

\* a space is on top of the operator stack while a '{' is open
SpaceOnTopInBracket == depth > 0 /\ operators # <<>> /\ Last(operators).type = SPACE

\* the words of the last bracket pair of the source are in one row of the result
BracketInOneRow ==
    LET n == Len(result.items)
    IN  /\ n >= 3
        /\ result.items[n - 2].text = <<"x", "x">>
        /\ result.items[n].text = <<"x", "x">>
        /\ result.items[n - 2].y = result.items[n].y
        /\ result.items[n - 1].y = result.items[n].y

\* C26: a space token that layout evaluates while at least one '{' is open
\* (depth > 0) concatenates lhs, space and rhs into one group whatever
\* max_width is, at the end of the input as well as at the next space, and
\* the words of a bracket pair come out in one row also when they are wider
\* than max_width.
C26_NoSplitInBrackets ==
    /\ [][/\ lpc = "unwind" /\ SpaceOnTopInBracket
                => output' = SpaceJoined(Last(operators))
          /\ lpc = "input" /\ SpaceOnTopInBracket /\ Head(tokens).type = SPACE
                => output' = SpaceJoined(Last(operators))]_vars
    /\ [](lpc = "returned" /\ s \in BracketSources =>
            /\ BracketInOneRow
            /\ s[1] = "{" => Cardinality(RowsOf(result)) = 1)

\* "{xx xx xx}" has returned for max_width 3 as one row of width 8
C26_Witness ==
    /\ lpc = "returned" /\ max_width = 3
    /\ s = <<"{", "x", "x", " ", "x", "x", " ", "x", "x", "}">>
    /\ Len(output) = 1
    /\ result.box.width = 8 /\ result.box.height = 1

(***************************************************************************)
(* Arguments without brackets                                              *)
(***************************************************************************)
ParkedOnTop == operators # <<>> /\ Last(operators).type \in FUNCTIONAL

\* the two quirks of an argument delivered without brackets
BracketQuirks(call, literal) ==
    << Quirk("function/macro arguments should be grouped using brackets", call.range),
       Quirk("function/macro argument missing brackets", literal.range) >>

\* the frame after the parked call was popped, the two quirks were appended
\* and the call was given the literal as its argument
Delivered ==
    push_arg([Frame EXCEPT !.operators = Front(@),
                           !.quirks = @ \o BracketQuirks(Last(operators), Head(tokens))],
             Last(operators), TextGroup_from_str(Head(tokens).value))

LiteralToParked == lpc = "input" /\ Head(tokens).type = LITERAL /\ ParkedOnTop
SpaceToParked == lpc = "input" /\ Head(tokens).type = SPACE /\ ParkedOnTop

\* a space arriving at a parked call changes nothing but the input position
SpaceSwallowed ==
    SpaceToParked =>
        UNCHANGED <<depth, output, operators, quirks, error, fgcolor_tls, macro_tls, fg_log>>

\* C27 (as claimed): when a literal arrives while a call is parked on top of
\* the operator stack, the quirks appended by that step are exactly two, one
\* with the call token's range and one with the literal's range; a space
\* arriving while a call is parked on top is discarded without a quirk and
\* without evaluating anything.
C27_ExactlyTwoQuirks ==
    [][/\ LiteralToParked =>
            quirks' = quirks \o BracketQuirks(Last(operators), Head(tokens))
       /\ SpaceSwallowed]_vars

\* C27 (amended): when a literal arrives while a call is parked on top of the
\* operator stack, the call is popped and given the literal as its next
\* argument, and the quirks appended by that step begin with the two bracket
\* quirks, one with the call token's range and one with the literal's range;
\* the quirks the call reports about that argument follow them.  A space
\* arriving while a call is parked on top is discarded without a quirk and
\* without evaluating anything.
C27_TwoQuirksThenDelivery ==
    [][/\ LiteralToParked =>
            /\ Len(quirks') >= Len(quirks) + 2
            /\ SubSeq(quirks', 1, Len(quirks) + 2)
                    = quirks \o BracketQuirks(Last(operators), Head(tokens))
            /\ output' = Delivered.output /\ operators' = Delivered.operators
            /\ quirks' = Delivered.quirks /\ error' = Delivered.err
            /\ fgcolor_tls' = Delivered.fg /\ macro_tls' = Delivered.mac
            /\ Last(operators).type = FUNCTION /\ error' = "" =>
                    /\ Len(fg_log') >= Len(fg_log) + 1
                    /\ fg_log'[Len(fg_log) + 1].arg
                            = TextGroup_from_str(Head(tokens).value)
                    /\ fg_log'[Len(fg_log) + 1].range = Last(operators).range
       /\ SpaceSwallowed]_vars

\* "\fgcolor x" is at the end of its input: the space was swallowed and the
\* literal x was delivered as the colour name, with the two bracket quirks
\* followed by the quirk of fgcolor
C27_Witness ==
    /\ lpc = "unwind" /\ tokens = <<>>
    /\ s = <<"\\">> \o fgcolor_ident \o <<" ", "x">>
    /\ Len(quirks) = 3
    /\ quirks[1].msg = "function/macro arguments should be grouped using brackets"
    /\ quirks[2].msg = "function/macro argument missing brackets"
    /\ quirks[3].msg = "failed to get color"
    /\ Len(fg_log) = 2 /\ fg_log[2].arg = TextGroup_from_str(<<"x">>)

(***************************************************************************)
(* The returned group                                                      *)
(***************************************************************************)
RECURSIVE SumHeights(_), MaxWidth(_), CountItems(_)
SumHeights(groups) ==
    IF groups = <<>> THEN 0 ELSE Head(groups).box.height + SumHeights(Tail(groups))
MaxWidth(groups) ==
    IF groups = <<>> THEN 0 ELSE Max(Head(groups).box.width, MaxWidth(Tail(groups)))
CountItems(groups) ==
    IF groups = <<>> THEN 0 ELSE Len(Head(groups).items) + CountItems(Tail(groups))

\* the item of the returned group that item m of output value k became
Placed(k, m) == result.items[CountItems(SubSeq(output, 1, k - 1)) + m]

\* the returned group has the size of the stacked values and holds their
\* items in order, each with its text and its horizontal position
StackedSize ==
    /\ result.box.height = SumHeights(output)
    /\ result.box.width = MaxWidth(output)
    /\ Len(result.items) = CountItems(output)
    /\ \A k \in 1..Len(output) : \A m \in 1..Len(output[k].items) :
            /\ Placed(k, m).text = output[k].items[m].text
            /\ Placed(k, m).x = output[k].items[m].x

\* every item of a later value is in a row below every item of an earlier one
StackedBelow ==
    \A k1 \in 1..Len(output), k2 \in 1..Len(output) :
        k1 < k2 =>
            \A m1 \in 1..Len(output[k1].items), m2 \in 1..Len(output[k2].items) :
                Placed(k2, m2).y < Placed(k1, m1).y

\* C28: the group layout returns stacks the values left on the output stack
\* in their order, the first one on top: its height is the sum of their
\* heights, its width the maximum of their widths, all items of a later value
\* lie in rows strictly below all items of every earlier value, and every
\* item keeps its text and its horizontal position.
C28_ResultStacksOutput ==
    lpc = "returned" => StackedSize /\ StackedBelow

(***************************************************************************)
(* load_macros claims                                                      *)
(***************************************************************************)
\* number of Macro.create calls made for a name
TimesCreated(name) == Cardinality({ k \in 1..Len(created) : created[k] = name })

\* C29: after any number of calls of load_macros in a process (each run_editor
\* and cmd_start makes one), every macro of the store has been created exactly
\* once, nothing else has been created, and no call has failed.
C29_LoadedExactlyOnce ==
    load_calls >= 1 =>
        /\ load_error = ""
        /\ \A k \in 1..Len(macros_db) : TimesCreated(macros_db[k]) = 1
        /\ Len(created) = Len(macros_db)

(***************************************************************************)
(* Synthetic spaces                                                        *)
(***************************************************************************)
\* the operator on top of the stack is a zero-width space made by normalize
SyntheticOnTop ==
    operators # <<>> /\ Last(operators).type = SPACE /\ Last(operators).value = <<>>

\* the source has no breaking space, infix operator, bracket or call
PlainSource == \A k \in 1..Len(s) : s[k] \in {"x", "."}

\* C30: a synthetic zero-width space that normalize inserts between two
\* adjacent operands never becomes a line break, whatever max_width is: each
\* step that evaluates one on top of the operator stack (at the next space, at
\* an unmatched '}', at the end of the input) makes lhs, the space and rhs one
\* group, and a source of words and punctuation only comes out in one row.
C30_NoBreakAtSyntheticSpace ==
    /\ [][/\ lpc = "unwind" /\ SyntheticOnTop
                => output' = SpaceJoined(Last(operators))
          /\ lpc = "input" /\ SyntheticOnTop /\ Head(tokens).type = SPACE
                => output' = SpaceJoined(Last(operators))
          /\ lpc = "input" /\ SyntheticOnTop /\ depth = 0
                /\ Head(tokens).type = RBRACKET
                => output' = SpaceJoined(Last(operators))]_vars
    /\ [](lpc = "returned" /\ PlainSource => Cardinality(RowsOf(result)) <= 1)

(***************************************************************************)
(* Spaces before an unmatched '{'                                          *)
(***************************************************************************)
\* the output stack after lhs with the space, and rhs, were kept as two lines
SpaceSplit(token) ==
    LET n   == Len(output)
        rhs == IF n >= 1 THEN output[n] ELSE TextGroup_empty
        lhs == IF n >= 2 THEN output[n - 1] ELSE TextGroup_empty
        out == IF n >= 2 THEN SubSeq(output, 1, n - 2) ELSE <<>>
    IN  out \o <<concat_default(lhs, TextGroup_from_str(token.value)), rhs>>

\* lhs + space + rhs of the two values on top of the output stack is too wide
TooWide(token) ==
    LET n   == Len(output)
        rhs == IF n >= 1 THEN output[n] ELSE TextGroup_empty
        lhs == IF n >= 2 THEN output[n - 1] ELSE TextGroup_empty
    IN  lhs.box.width + unicode_width(token.value) + rhs.box.width > max_width

\* the space on top of the operator stack stands outside every '{' of the
\* source: no '{' is open below it
SpaceOnTopOutside ==
    /\ operators # <<>> /\ Last(operators).type = SPACE
    /\ \A k \in 1..(Len(operators) - 1) : operators[k].type # LBRACKET

\* C31: the wrap decision for a space uses the bracket depth of the place where
\* the space stands in the source: a space outside every '{' that is evaluated
\* by the end-of-input unwinding is split when lhs + space + rhs is wider than
\* max_width, also when an unmatched '{' came later in the input; "xxx {xx"
\* and "xxx {" come out in two rows at max_width 3.
C31_WrapUsesSourceDepth ==
    /\ [][lpc = "unwind" /\ SpaceOnTopOutside /\ TooWide(Last(operators))
            => output' = SpaceSplit(Last(operators))]_vars
    /\ [](lpc = "returned" /\ s \in OpenSources /\ max_width = 3
            => Cardinality(RowsOf(result)) = 2)

(***************************************************************************)
(* depth and the operator stack                                            *)
(***************************************************************************)
\* number of '{' tokens on an operator stack
LBrackets(ops) == Cardinality({ k \in 1..Len(ops) : ops[k].type = LBRACKET })

\* C32: after layout has processed each input token (tokens re-emitted by a
\* macro expansion included), depth equals the number of LBRACKET tokens on
\* the operator stack and is never negative; an unmatched '}' leaves depth
\* unchanged, and depth is lowered only by a '}' that finds its '{'.
C32_DepthCountsBrackets ==
    /\ [](lpc = "input" => depth = LBrackets(operators) /\ depth >= 0)
    /\ [][lpc = "input" /\ lpc' # "raised" =>
            /\ depth' = LBrackets(operators') /\ depth' >= 0
            /\ Head(tokens).type = RBRACKET /\ LBrackets(operators) = 0
                  => depth' = depth
            /\ depth' < depth =>
                  /\ Head(tokens).type = RBRACKET /\ LBrackets(operators) > 0
                  /\ depth' = depth - 1]_vars

\* "}{x": the unmatched '}' was reported and the '{' after it is the one
\* bracket counted when the input is exhausted
C32_Witness ==
    /\ s = <<"}", "{", "x">> /\ lpc = "unwind" /\ tokens = <<>>
    /\ depth = 1 /\ LBrackets(operators) = 1
    /\ quirks # <<>> /\ quirks[1].msg = "unmatched right brace"

(***************************************************************************)
(* Pending calls at the return                                             *)
(***************************************************************************)
\* fgcolor's colour stack is as a thread that made no call has it: not yet
\* created, or exactly [default colour]
ColourStackAtRest == fgcolor_tls.set => fgcolor_tls.state = <<ANSI_DEFAULT>>

\* Macro.tls.state is not yet created or empty
MacroStackAtRest == macro_tls.set => macro_tls.state = <<>>

\* C33: whenever layout returns normally, every call opened with
\* push_arg(None) during that evaluation has completed: the fgcolor colour
\* stack is again exactly [default colour] and the macro argument stack is
\* empty, as they were before the call.
C33_NoPendingCallAtReturn ==
    lpc = "returned" => ColourStackAtRest /\ MacroStackAtRest

\* "\fgcolor" has returned: the call parked without arguments was completed by
\* the unwinding loop and the colour stack is [default colour] again
C33_Witness ==
    /\ lpc = "returned" /\ s = <<"\\">> \o fgcolor_ident
    /\ Len(fg_log) = 3
    /\ fgcolor_tls.set /\ fgcolor_tls.state = <<ANSI_DEFAULT>>

(***************************************************************************)
(* Adjacent operands                                                       *)
(***************************************************************************)
\* C34: normalize never emits two operand tokens next to each other without a
\* separator: in its output a LITERAL, FUNCTION or MACRO token is never
\* immediately followed by a LITERAL token, around escaped characters and
\* around the synthetic empty literal as well.
C34_OperandsSeparated ==
    npc = "done" =>
        \A k \in 1..(Len(normalized) - 1) :
            normalized[k].type \in {LITERAL, FUNCTION, MACRO}
                => normalized[k + 1].type # LITERAL

(***************************************************************************)
(* Practice claims                                                         *)
(***************************************************************************)
\* the row a card has when its answer in the running round was result_: the
\* row start_round found, updated by update_card with the streak shown
AsIfAnswered(card_id, result_) ==
    update_session_card(round_rows[card_id],
                        update_card(done_streak(card_id), result_, counter))

\* C35: a card of the history whose result was set by on_revise has the
\* session record (streak, review_at) it would have if its original answer in
\* that round had been that result; a card whose result is now fail is due for
\* review in the next round.
C35_ReviseLikeAnswer ==
    \A k \in 1..Len(history) :
        /\ session_cards[history[k].id] = AsIfAnswered(history[k].id, history[k].result)
        /\ history[k].result = RESULT_FAIL
              => IsDue(session_cards[history[k].id], counter + 1)

(***************************************************************************)
(* Formatter claims                                                        *)
(***************************************************************************)
\* the (start, end) pairs tile [0, n): first start 0, each start the previous
\* end, each end greater than its start, last end n; no pair for the empty text
LinesTile(lines_, n) ==
    /\ n = 0 => lines_ = <<>>
    /\ n > 0 => lines_ # <<>> /\ lines_[1][1] = 0 /\ lines_[Len(lines_)][2] = n
    /\ \A k \in 1..Len(lines_) : lines_[k][2] > lines_[k][1]
    /\ \A k \in 1..(Len(lines_) - 1) : lines_[k + 1][1] = lines_[k][2]

\* C36: for every text and every cols >= 1, Formatter.lines terminates and its
\* (start, end) pairs tile the text: every iteration of the outer loop moves
\* line_start forward by at least one character and never past the end, and
\* the returned list starts at 0, has each start equal to the previous end,
\* each end greater than its start and the last end len(text); for the empty
\* text the list is empty.
C36_LinesTileText ==
    /\ [](fpc = "returned" => LinesTile(formatter_lines, Len(formatter_text)))
    /\ [](line_start <= Len(formatter_text))
    /\ [][fpc = "loop" /\ fpc' = "loop" => line_start' > line_start]_vars

\* "a-a " in two columns has returned as the two lines "a-" and "a "
C36_Witness ==
    /\ fpc = "returned" /\ formatter_cols = 2
    /\ formatter_text = <<"a", "-", "a", " ">>
    /\ Len(formatter_lines) = 2
    /\ formatter_lines[1][2] = 2

\* C37: every line computed by Formatter.lines has display width (wide
\* characters count 2 columns) at most the formatter's column count, for every
\* text mixing 1-column and 2-column characters and every cols >= 2, so that
\* the right padding cols - width of redraw is never negative.
C37_LinesFitCols ==
    fpc = "returned" /\ formatter_cols >= 2 =>
        \A k \in 1..Len(formatter_lines) :
            /\ formatter_lines[k][3] <= formatter_cols
            /\ formatter_cols - formatter_lines[k][3] >= 0

(***************************************************************************)
(* Input claims                                                            *)
(***************************************************************************)
\* the text after the step is the text before it without its character number k (from 1)
RemovedAt(k) ==
    /\ Len(input_text') = Len(input_text) - 1
    /\ \A n \in 1..Len(input_text') :
          input_text'[n] = input_text[IF n < k THEN n ELSE n + 1]

\* the text after the step is the text before it with c put in as character number k (from 1)
InsertedAt(k, c) ==
    /\ Len(input_text') = Len(input_text) + 1
    /\ input_text'[k] = c
    /\ \A n \in 1..Len(input_text) :
          input_text'[IF n < k THEN n ELSE n + 1] = input_text[n]

\* C38: whatever keys process_char handles and whatever text edit and
\* flip_card assign, the cursor stays within 0..len(text); a backspace with
\* the cursor past the start removes exactly the character before the cursor
\* and moves the cursor onto its place; a typed character lands exactly at
\* the cursor position and the cursor moves past it.
C38_CursorInsideText ==
    /\ [](0 <= cursor /\ cursor <= Len(input_text))
    /\ [][/\ (getwch' = <<ASCII_BACKSPACE>> /\ cursor > 0)
             => RemovedAt(cursor) /\ cursor' = cursor - 1
          /\ (getwch' = <<ASCII_BACKSPACE>> /\ cursor = 0)
             => input_text' = input_text /\ cursor' = cursor
          /\ \A c \in InputChars :
                getwch' = <<c>> => InsertedAt(cursor + 1, c) /\ cursor' = cursor + 1]_vars

\* "b" has just been typed between the two characters of "aa"
C38_Witness ==
    /\ getwch = <<"b">> /\ input_text = <<"a", "b", "a">> /\ cursor = 2

(***************************************************************************)
(* Session deck claims                                                     *)
(***************************************************************************)
\* the deck ids handed to the call that has just been made
GivenDecks == { db_call'.decks[k] : k \in 1..Len(db_call'.decks) }

\* C39: after update_session_decks(session, decks) has returned, every
\* session_cards row of that session refers to a card whose deck is one of
\* the given decks, every such row that existed before is still there with
\* the same streak and review_at, and the session_decks and session_cards
\* rows of all other sessions are as they were.
C39_OnlyOwnSessionCleaned ==
    [][(db_call' # <<>> /\ db_call'.op = "update_session_decks" /\ db_call'.error = "")
       => /\ \A card \in CardIds :
                db_session_cards'[<<db_call'.session, card>>].present
                   => card_deck[card] \in GivenDecks
          /\ \A card \in CardIds :
                (db_session_cards[<<db_call'.session, card>>].present
                 /\ card_deck[card] \in GivenDecks)
                   => db_session_cards'[<<db_call'.session, card>>]
                        = db_session_cards[<<db_call'.session, card>>]
          /\ \A other \in SessionIds \ {db_call'.session} :
                /\ \A card \in CardIds :
                      db_session_cards'[<<other, card>>] = db_session_cards[<<other, card>>]
                /\ \A deck \in DeckIds :
                      <<other, deck>> \in db_session_decks'
                         <=> <<other, deck>> \in db_session_decks]_vars

\* session 1 has been cut down to deck 1: the call deleted one row, session 1
\* keeps a studied card of deck 1, and session 2 keeps its row of a card of deck 2
C39_Witness ==
    /\ db_call # <<>> /\ db_call.op = "update_session_decks" /\ db_call.error = ""
    /\ db_call.session = 1 /\ db_call.decks = <<1>> /\ db_call.rowcount = 1
    /\ \E card \in CardIds :
          card_deck[card] = 1 /\ db_session_cards[<<1, card>>].present
          /\ db_session_cards[<<1, card>>].streak = 1
    /\ \E card \in CardIds :
          card_deck[card] = 2 /\ db_session_cards[<<2, card>>].present
          /\ ~db_session_cards[<<1, card>>].present

====
